---- MODULE Spec2Model ----
(***************************************************************************)
(* Pattern library (src/App.tsx): the bookmark manager with its            *)
(* localStorage slot, the search / scope filter and the React render and   *)
(* effect cycle that connects them.                                        *)
(*                                                                         *)
(* Strings are sequences of one-character strings.  A JavaScript value is  *)
(* a record [t, a, s]: t is the type tag, a the elements of an array, s    *)
(* the characters of a string or the digits of a number.                   *)
(***************************************************************************)
EXTENDS Integers, Sequences, FiniteSets, TLC

\* ------------------------------------------------------------------------
\* Bounds
\* ------------------------------------------------------------------------

\* State updates that may be queued before React renders again.
MaxPending == 2

\* Audio sources that exist at a time (playing, or stopped with their
\* 'ended' event still to come), speech requests in flight included.
MaxSources == 2

\* Requests of one kind that may be in flight at a time.
MaxInFlight == 2

\* Fetch events that are being answered at a time.
MaxFetches == 2

\* ------------------------------------------------------------------------
\* Strings
\* ------------------------------------------------------------------------

UpperCaseLetters ==
  <<"A", "B", "C", "D", "E", "F", "G", "H", "I", "J", "K", "L", "M",
    "N", "O", "P", "Q", "R", "S", "T", "U", "V", "W", "X", "Y", "Z">>

LowerCaseLetters ==
  <<"a", "b", "c", "d", "e", "f", "g", "h", "i", "j", "k", "l", "m",
    "n", "o", "p", "q", "r", "s", "t", "u", "v", "w", "x", "y", "z">>

Digits == {"0", "1", "2", "3", "4", "5", "6", "7", "8", "9"}

Quote == "\""

Backslash == "\\"

\* The lower-case letter of each upper-case letter.
UpperToLower ==
  [c \in {UpperCaseLetters[k] : k \in 1..26} |->
     LowerCaseLetters[CHOOSE k \in 1..26 : UpperCaseLetters[k] = c]]

\* String.prototype.toLowerCase, one character.
LowerChar(c) ==
  IF c \in DOMAIN UpperToLower THEN UpperToLower[c] ELSE c

\* String.prototype.toLowerCase.
toLowerCase(s) == [i \in 1..Len(s) |-> LowerChar(s[i])]

\* String.prototype.includes: needle occurs in hay at some offset.
StrIncludes(hay, needle) ==
  \E i \in 0..(Len(hay) - Len(needle)) :
    SubSeq(hay, i + 1, i + Len(needle)) = needle

\* ------------------------------------------------------------------------
\* JavaScript values
\* ------------------------------------------------------------------------

JsArr(a) == [t |-> "arr", a |-> a, s |-> <<>>]

JsStr(s) == [t |-> "str", a |-> <<>>, s |-> s]

JsNum(s) == [t |-> "num", a |-> <<>>, s |-> s]

JsNull == [t |-> "null", a |-> <<>>, s |-> <<>>]

JsObj == [t |-> "obj", a |-> <<>>, s |-> <<>>]

\* The outcome of an expression that throws TypeError.
TypeError == [t |-> "TypeError", a |-> <<>>, s |-> <<>>]

\* The outcome of JSON.parse on text that is not JSON.
SyntaxError == [t |-> "SyntaxError", a |-> <<>>, s |-> <<>>]

Thrown(v) == v.t \in {"TypeError", "SyntaxError"}

\* The characters of a string as an array of one-character strings
\* (the spread of a string).
SpreadStr(s) == [i \in 1..Len(s) |-> JsStr(<<s[i]>>)]

\* ------------------------------------------------------------------------
\* JSON.stringify and JSON.parse
\* ------------------------------------------------------------------------

RECURSIVE EscapeChars(_)
EscapeChars(s) ==
  IF s = <<>> THEN <<>>
  ELSE (IF Head(s) \in {Quote, Backslash}
        THEN <<Backslash, Head(s)>>
        ELSE <<Head(s)>>) \o EscapeChars(Tail(s))

RECURSIVE JSONstringify(_)
JSONstringify(v) ==
  LET RECURSIVE Join(_)
      Join(a) ==
        IF a = <<>> THEN <<>>
        ELSE IF Len(a) = 1 THEN JSONstringify(a[1])
        ELSE JSONstringify(a[1]) \o <<",">> \o Join(Tail(a))
  IN CASE v.t = "arr"  -> <<"[">> \o Join(v.a) \o <<"]">>
       [] v.t = "str"  -> <<Quote>> \o EscapeChars(v.s) \o <<Quote>>
       [] v.t = "num"  -> v.s
       [] v.t = "obj"  -> <<"{", "}">>
       [] OTHER        -> <<"n", "u", "l", "l">>

ParseFail == [ok |-> FALSE, v |-> SyntaxError, rest |-> <<>>]

ParseOk(v, rest) == [ok |-> TRUE, v |-> v, rest |-> rest]

RECURSIVE SkipWs(_)
SkipWs(s) == IF s # <<>> /\ Head(s) = " " THEN SkipWs(Tail(s)) ELSE s

\* The longest prefix of digits of s.
RECURSIVE DigitPrefix(_)
DigitPrefix(s) ==
  IF s # <<>> /\ Head(s) \in Digits
  THEN <<Head(s)>> \o DigitPrefix(Tail(s))
  ELSE <<>>

\* The body of a string literal, after its opening quote.
RECURSIVE ParseChars(_, _)
ParseChars(s, acc) ==
  IF s = <<>> THEN ParseFail
  ELSE IF Head(s) = Quote THEN ParseOk(JsStr(acc), Tail(s))
  ELSE IF Head(s) = Backslash
       THEN IF Len(s) >= 2 /\ s[2] \in {Quote, Backslash}
            THEN ParseChars(Tail(Tail(s)), Append(acc, s[2]))
            ELSE ParseFail
  ELSE ParseChars(Tail(s), Append(acc, Head(s)))

RECURSIVE ParseValue(_)
RECURSIVE ParseElements(_, _)

ParseValue(s0) ==
  LET s == SkipWs(s0) IN
  IF s = <<>> THEN ParseFail
  ELSE IF Head(s) = "["
       THEN LET r == SkipWs(Tail(s)) IN
            IF r # <<>> /\ Head(r) = "]"
            THEN ParseOk(JsArr(<<>>), Tail(r))
            ELSE ParseElements(r, <<>>)
  ELSE IF Head(s) = Quote THEN ParseChars(Tail(s), <<>>)
  ELSE IF Head(s) = "{"
       THEN LET r == SkipWs(Tail(s)) IN
            IF r # <<>> /\ Head(r) = "}"
            THEN ParseOk(JsObj, Tail(r))
            ELSE ParseFail
  ELSE IF Head(s) = "n"
       THEN IF Len(s) >= 4 /\ SubSeq(s, 1, 4) = <<"n", "u", "l", "l">>
            THEN ParseOk(JsNull, SubSeq(s, 5, Len(s)))
            ELSE ParseFail
  ELSE IF Head(s) \in Digits
       THEN LET d == DigitPrefix(s) IN
            IF Head(d) = "0" /\ Len(d) > 1
            THEN ParseFail
            ELSE ParseOk(JsNum(d), SubSeq(s, Len(d) + 1, Len(s)))
  ELSE ParseFail

ParseElements(s, acc) ==
  LET r == ParseValue(s) IN
  IF ~r.ok THEN ParseFail
  ELSE LET rest == SkipWs(r.rest) IN
       IF rest = <<>> THEN ParseFail
       ELSE IF Head(rest) = ","
            THEN ParseElements(Tail(rest), Append(acc, r.v))
       ELSE IF Head(rest) = "]"
            THEN ParseOk(JsArr(Append(acc, r.v)), Tail(rest))
       ELSE ParseFail

\* JSON.parse: the value the text denotes, or SyntaxError.
JSONparse(text) ==
  LET r == ParseValue(text) IN
  IF r.ok /\ SkipWs(r.rest) = <<>> THEN r.v ELSE SyntaxError

\* ------------------------------------------------------------------------
\* The catalog (DESIGN_PATTERNS)
\* ------------------------------------------------------------------------

\* PatternCategory.CREATIONAL
CREATIONAL ==
  <<"C", "r", "e", "a", "t", "i", "o", "n", "a", "l">>

\* PatternCategory.STRUCTURAL
STRUCTURAL ==
  <<"S", "t", "r", "u", "c", "t", "u", "r", "a", "l">>

\* PatternCategory.BEHAVIORAL
BEHAVIORAL ==
  <<"B", "e", "h", "a", "v", "i", "o", "r", "a", "l">>

\* Catalog records carry the fields the filter and the bookmarks read: id,
\* name, category and the leading words of the description.

\* id: abstract-factory
AbstractFactory ==
  [id |-> <<"a", "b", "s", "t", "r", "a", "c", "t", "-", "f", "a", "c", "t", "o",
            "r", "y">>,
   name |-> <<"A", "b", "s", "t", "r", "a", "c", "t", " ", "F", "a", "c", "t", "o",
              "r", "y">>,
   category |-> CREATIONAL,
   description |->
     <<"L", "e", "t", "s", " ", "y", "o", "u", " ", "p", "r", "o", "d", "u",
       "c", "e", " ", "f", "a", "m", "i", "l", "i", "e", "s">>]

\* id: factory-method
FactoryMethod ==
  [id |-> <<"f", "a", "c", "t", "o", "r", "y", "-", "m", "e", "t", "h", "o", "d">>,
   name |-> <<"F", "a", "c", "t", "o", "r", "y", " ", "M", "e", "t", "h", "o", "d">>,
   category |-> CREATIONAL,
   description |->
     <<"P", "r", "o", "v", "i", "d", "e", "s", " ", "a", "n", " ", "i", "n",
       "t", "e", "r", "f", "a", "c", "e">>]

\* id: singleton
Singleton ==
  [id |-> <<"s", "i", "n", "g", "l", "e", "t", "o", "n">>,
   name |-> <<"S", "i", "n", "g", "l", "e", "t", "o", "n">>,
   category |-> CREATIONAL,
   description |->
     <<"E", "n", "s", "u", "r", "e", "s", " ", "a", " ", "c", "l", "a", "s",
       "s">>]

\* id: builder
Builder ==
  [id |-> <<"b", "u", "i", "l", "d", "e", "r">>,
   name |-> <<"B", "u", "i", "l", "d", "e", "r">>,
   category |-> CREATIONAL,
   description |->
     <<"L", "e", "t", "s", " ", "y", "o", "u", " ", "c", "o", "n", "s", "t",
       "r", "u", "c", "t">>]

\* id: bridge
Bridge ==
  [id |-> <<"b", "r", "i", "d", "g", "e">>,
   name |-> <<"B", "r", "i", "d", "g", "e">>,
   category |-> STRUCTURAL,
   description |->
     <<"L", "e", "t", "s", " ", "y", "o", "u", " ", "s", "p", "l", "i", "t",
       " ", "a", " ", "l", "a", "r", "g", "e", " ", "c", "l", "a", "s", "s">>]

\* DESIGN_PATTERNS as it starts in the catalog that opens with the factories.
FactoryCatalog == <<AbstractFactory, FactoryMethod, Singleton>>

\* Two records of the catalog of constants.tsx, in its order and of
\* different categories.
BuilderCatalog == <<Builder, Bridge>>

Catalogs == {FactoryCatalog, BuilderCatalog}

\* ------------------------------------------------------------------------
\* Inputs
\* ------------------------------------------------------------------------

QueryEmpty ==
  <<>>

QueryFacto ==
  <<"f", "a", "c", "t", "o">>

QueryFACTO ==
  <<"F", "A", "C", "T", "O">>

QueryCreat ==
  <<"C", "r", "e", "a", "t">>

\* The texts typed into the search box.
Queries == {QueryEmpty, QueryFacto, QueryFACTO, QueryCreat}

Tabs == {"patterns", "bookmarks"}

\* An id that no catalog record has; it holds a quote character.
OrphanId ==
  <<"x", "\"", "y">>

NoItem == [has |-> FALSE, text |-> <<>>]

Item(text) == [has |-> TRUE, text |-> text]

\* The contents of the slot 'cpp-pattern-bookmarks' that a first session
\* may find: nothing, text that is not JSON, JSON that is not an array of
\* strings, and arrays of strings written by earlier sessions.
AbsentOrCorruptSlots ==
  {NoItem, Item(<<>>), Item(<<"[">>), Item(<<"[", Quote, "a", "]">>)}

NonArraySlots ==
  {Item(JSONstringify(JsNull)), Item(JSONstringify(JsNum(<<"7">>))),
   Item(JSONstringify(JsObj)), Item(JSONstringify(JsStr(Bridge.id))),
   Item(JSONstringify(JsArr(<<JsNum(<<"7">>)>>)))}

StringArraySlots ==
  {Item(JSONstringify(JsArr(<<>>))),
   Item(JSONstringify(JsArr(<<JsStr(Bridge.id)>>))),
   Item(JSONstringify(JsArr(<<JsStr(OrphanId), JsStr(Bridge.id)>>))),
   Item(JSONstringify(JsArr(<<JsStr(Bridge.id), JsStr(Bridge.id)>>)))}

StartSlots == AbsentOrCorruptSlots \cup NonArraySlots \cup StringArraySlots

\* The three-record catalog starts from no item or from one bookmark; the
\* two-record catalog starts from every slot above.
SlotsOf(patterns) ==
  IF patterns = FactoryCatalog
  THEN {NoItem, Item(JSONstringify(JsArr(<<JsStr(Singleton.id)>>)))}
  ELSE StartSlots

\* ------------------------------------------------------------------------
\* toggleBookmark and filteredPatterns
\* ------------------------------------------------------------------------

\* Whether value.includes exists: arrays and strings have the method, any
\* other value throws TypeError at the call.
HasIncludes(v) == v.t \in {"arr", "str"}

\* bookmarks.includes(id) for a value that has the method: membership by
\* strict equality in an array, substring in a string.
Includes(v, id) ==
  IF v.t = "arr"
  THEN \E i \in 1..Len(v.a) : v.a[i] = JsStr(id)
  ELSE StrIncludes(v.s, id)

\* toggleBookmark removing one occurrence of the id, not all of them.
toggleBookmarkFirstOnly(prev, id) ==
  IF prev.t = "arr" /\ Includes(prev, id)
  THEN LET k == CHOOSE i \in 1..Len(prev.a) :
                  /\ prev.a[i] = JsStr(id)
                  /\ \A j \in 1..(i - 1) : prev.a[j] # JsStr(id)
       IN JsArr(SubSeq(prev.a, 1, k - 1) \o SubSeq(prev.a, k + 1, Len(prev.a)))
  ELSE IF prev.t = "arr" THEN JsArr(Append(prev.a, JsStr(id)))
  ELSE TypeError

\* toggleBookmark that adds the id and never removes it.
toggleBookmarkAppend(prev, id) ==
  IF prev.t = "arr" THEN JsArr(Append(prev.a, JsStr(id))) ELSE TypeError

\* toggleBookmark that also drops the ids no catalog record has.
toggleBookmarkKnownOnly(prev, id) ==
  IF prev.t = "arr"
  THEN LET known(b) == \E p \in {AbstractFactory, FactoryMethod, Singleton,
                                  Builder, Bridge} : b = JsStr(p.id)
           kept == SelectSeq(prev.a, known)
       IN IF Includes(prev, id)
          THEN JsArr(SelectSeq(kept, LAMBDA b : b # JsStr(id)))
          ELSE JsArr(Append(kept, JsStr(id)))
  ELSE TypeError

\* The updater of toggleBookmark:
\*   prev.includes(id) ? prev.filter(b => b !== id) : [...prev, id]
\* An array is filtered or extended.  A string has includes and can be
\* spread but has no filter; any other value has no includes.
toggleBookmark(prev, id) ==
  IF prev.t = "arr"
  THEN IF Includes(prev, id)
       THEN JsArr(SelectSeq(prev.a, LAMBDA b : b # JsStr(id)))
       ELSE JsArr(Append(prev.a, JsStr(id)))
  ELSE IF prev.t = "str"
  THEN IF Includes(prev, id)
       THEN TypeError
       ELSE JsArr(Append(SpreadStr(prev.s), JsStr(id)))
  ELSE TypeError

\* The text filter with the search text compared as typed.
MatchesQueryAsTyped(p, query) ==
  \/ StrIncludes(toLowerCase(p.name), query)
  \/ StrIncludes(toLowerCase(p.description), query)
  \/ StrIncludes(toLowerCase(p.category), query)

\* The text filter looking at the name only.
MatchesNameOnly(p, query) ==
  StrIncludes(toLowerCase(p.name), toLowerCase(query))

\* The text filter treating the empty search text as matching nothing.
MatchesNonEmptyQuery(p, query) ==
  /\ query # <<>>
  /\ \/ StrIncludes(toLowerCase(p.name), toLowerCase(query))
     \/ StrIncludes(toLowerCase(p.description), toLowerCase(query))
     \/ StrIncludes(toLowerCase(p.category), toLowerCase(query))

\* The predicate of the text filter.
Matches(p, query) ==
  \/ StrIncludes(toLowerCase(p.name), toLowerCase(query))
  \/ StrIncludes(toLowerCase(p.description), toLowerCase(query))
  \/ StrIncludes(toLowerCase(p.category), toLowerCase(query))

\* filteredPatterns that walks the bookmarks and looks each id up, so that
\* the bookmarks tab is in bookmark order.
FilteredPatternsBookmarkOrder(patterns, tab, query, marks) ==
  LET RECURSIVE Lookup(_)
      Lookup(ids) ==
        IF ids = <<>> THEN <<>>
        ELSE SelectSeq(patterns, LAMBDA p : JsStr(p.id) = Head(ids))
               \o Lookup(Tail(ids))
      source == IF tab = "bookmarks" /\ marks.t = "arr"
                THEN Lookup(marks.a)
                ELSE patterns
  IN SelectSeq(source, LAMBDA p : Matches(p, query))

\* filteredPatterns that takes the whole catalog in either tab.
FilteredPatternsAnyScope(patterns, tab, query, marks) ==
  SelectSeq(patterns, LAMBDA p : Matches(p, query))

\* filteredPatterns that ignores the search text.
FilteredPatternsAnyQuery(patterns, tab, query, marks) ==
  IF tab = "bookmarks"
  THEN SelectSeq(patterns, LAMBDA p : Includes(marks, p.id))
  ELSE patterns

\* filteredPatterns that shows every record when nothing is found.
FilteredPatternsNeverEmpty(patterns, tab, query, marks) ==
  LET source == IF tab = "bookmarks"
                THEN SelectSeq(patterns, LAMBDA p : Includes(marks, p.id))
                ELSE patterns
      found == SelectSeq(source, LAMBDA p : Matches(p, query))
  IN IF found = <<>> THEN patterns ELSE found

\* filteredPatterns that returns the matches last record first.
FilteredPatternsReversed(patterns, tab, query, marks) ==
  LET source == IF tab = "bookmarks"
                THEN SelectSeq(patterns, LAMBDA p : Includes(marks, p.id))
                ELSE patterns
      found == SelectSeq(source, LAMBDA p : Matches(p, query))
  IN [i \in 1..Len(found) |-> found[Len(found) + 1 - i]]

\* The useMemo body of filteredPatterns; FilterThrows tells whether it
\* throws instead of returning.
FilterThrows(tab, marks) == tab = "bookmarks" /\ ~HasIncludes(marks)

FilteredPatterns(patterns, tab, query, marks) ==
  LET source == IF tab = "bookmarks"
                THEN SelectSeq(patterns, LAMBDA p : Includes(marks, p.id))
                ELSE patterns
  IN SelectSeq(source, LAMBDA p : Matches(p, query))

\* The paragraph App renders in place of the grid when nothing is shown.
NothingBookmarkedMessage == "You haven't bookmarked any patterns yet."

NoMatchMessage == "No patterns match your search."

EmptyStateMessage(tab) ==
  IF tab = "bookmarks" THEN NothingBookmarkedMessage ELSE NoMatchMessage

\* Whether rendering App with this state throws: the memo, or the
\* isBookmarked property of a card of the grid.
RenderThrows(patterns, tab, query, marks) ==
  \/ FilterThrows(tab, marks)
  \/ /\ Len(FilteredPatterns(patterns, tab, query, marks)) > 0
     /\ ~HasIncludes(marks)

\* ------------------------------------------------------------------------
\* State
\* ------------------------------------------------------------------------

VARIABLES
  catalog,          \* DESIGN_PATTERNS of this build
  storage,          \* the localStorage slot 'cpp-pattern-bookmarks'
  storageFull,      \* localStorage.setItem throws (quota exceeded)
  app,              \* "unloaded", "mounted", or the uncaught error that
                    \* made React unmount the tree
  bookmarks,        \* useState: bookmarks
  activeTab,        \* useState: activeTab
  searchQuery,      \* useState: searchQuery
  filteredPatterns, \* useMemo: the list the grid shows
  pending,          \* state updates queued for the next render
  effects,          \* passive effects of the last commit, not yet run
  applied,          \* the bookmark updates of the commit whose effects wait
  held,             \* the bookmarks held and persisted at the last unload
  startup,          \* what the load effect found, until a bookmark is clicked
  selectedPattern,  \* useState: selectedPattern
  detailEvent,      \* the last event, when it was one of the detail view
  problemDesc,      \* useState: problemDesc (the App with the AI tabs)
  aiLoading,        \* useState: aiLoading
  suggestion,       \* useState: suggestion
  isDarkMode,       \* useState: isDarkMode
  explainCodeInput, \* useState: explainCodeInput (the App with the AI tabs)
  explainLoading,   \* useState: explainLoading
  explanation,      \* useState: explanation
  detail,           \* the hooks and refs of the mounted PatternDetail
  requests,         \* the calls of the AI service that have not settled
  sources,          \* the audio sources that were started, in order
  ledger,           \* what was asked last, and what the display answers
  caches,           \* CacheStorage of the origin: name -> cached URLs
  worker,           \* the service worker: its version and lifecycle step
  fetches,          \* the fetch events that are being answered
  served            \* how the fetch events were answered

vars == <<catalog, storage, storageFull, app, bookmarks, activeTab,
          searchQuery, filteredPatterns, pending, effects, applied, held,
          startup, selectedPattern, detailEvent, problemDesc, aiLoading,
          suggestion, isDarkMode, explainCodeInput, explainLoading,
          explanation, detail, requests, sources, ledger, caches, worker,
          fetches, served>>

suggestVars == <<problemDesc, aiLoading, suggestion>>

readerVars ==
  <<explainCodeInput, explainLoading, explanation, detail, requests,
    sources, ledger>>

workerVars == <<caches, worker, fetches, served>>

NoValue == [t |-> "none", a |-> <<>>, s |-> <<>>]

\* selectedPattern is null: no detail view is rendered.
NoPattern ==
  [id |-> <<>>, name |-> <<>>, category |-> <<>>, description |-> <<>>]

NoDetailEvent == "none"

\* suggestion is null: no suggestion panel is rendered.
NoSuggestion == [patternId |-> NoValue, reasoning |-> NoValue]

NothingApplied == [updates |-> <<>>, prev |-> NoValue]

\* A queued state update: a bookmarks updater, a bookmarks value, a search
\* text or a tab.
ToggleUpdate(id) == [hook |-> "toggle", x |-> JsStr(id), tab |-> ""]

SetBookmarksUpdate(v) == [hook |-> "bookmarks", x |-> v, tab |-> ""]

SearchUpdate(q) == [hook |-> "searchQuery", x |-> JsStr(q), tab |-> ""]

TabUpdate(tab) == [hook |-> "activeTab", x |-> NoValue, tab |-> tab]

\* setSelectedPattern(p), p a record or null.
SelectUpdate(p) == [hook |-> "selectedPattern", x |-> p, tab |-> ""]

\* setIsDarkMode(dark).
ThemeUpdate(dark) ==
  [hook |-> "isDarkMode", x |-> NoValue, tab |-> "", dark |-> dark]

IsBookmarkUpdate(u) == u.hook \in {"toggle", "bookmarks"}

\* The hook state after the queued updates, in queue order.
RECURSIVE ApplyUpdates(_, _)
ApplyUpdates(st, updates) ==
  IF updates = <<>> \/ Thrown(st.bookmarks) THEN st
  ELSE LET u == Head(updates)
           after ==
             CASE u.hook = "toggle" ->
                    [st EXCEPT !.bookmarks = toggleBookmark(@, u.x.s)]
               [] u.hook = "bookmarks" -> [st EXCEPT !.bookmarks = u.x]
               [] u.hook = "searchQuery" -> [st EXCEPT !.searchQuery = u.x.s]
               [] u.hook = "selectedPattern" ->
                    [st EXCEPT !.selectedPattern = u.x]
               [] u.hook = "isDarkMode" -> [st EXCEPT !.isDarkMode = u.dark]
               [] OTHER -> [st EXCEPT !.activeTab = u.tab]
       IN ApplyUpdates(after, Tail(updates))

HookState ==
  [bookmarks |-> bookmarks, searchQuery |-> searchQuery,
   activeTab |-> activeTab, selectedPattern |-> selectedPattern,
   isDarkMode |-> isDarkMode]

\* diagramUrl is null.
NoUrl == ""

\* sourceNodeRef.current is null.
NoSource == 0

\* No PatternDetail is mounted.
NoDetail ==
  [mounted |-> FALSE, isGeneratingDiagram |-> FALSE, diagramUrl |-> NoUrl,
   isTtsLoading |-> FALSE, isSpeaking |-> FALSE, sourceNodeRef |-> NoSource]

\* An audio source that does not exist (any more).
Idle == [state |-> "idle", live |-> FALSE]

NoSources == [id \in 1..MaxSources |-> Idle]

\* No call of the AI service is in flight.
NoRequests ==
  [kind \in {"suggest", "explain", "diagram", "speech"} |-> <<>>]

\* What is displayed answers the request that was issued last.
NoLedger == [suggestion |-> TRUE, explanation |-> TRUE]

\* CacheStorage holds no cache.
NoCaches == <<>>

\* No service worker is registered.
NoWorker ==
  [version |-> "none", step |-> "none", precached |-> FALSE, found |-> {},
   todo |-> {}]

\* No fetch event was answered.
NoAnswer == [url |-> <<>>, from |-> "none"]

\* No component is mounted: there is no hook state.
NoHooks ==
  /\ bookmarks' = JsArr(<<>>)
  /\ activeTab' = "patterns"
  /\ searchQuery' = <<>>
  /\ filteredPatterns' = <<>>
  /\ pending' = <<>>
  /\ effects' = <<>>
  /\ applied' = NothingApplied
  /\ selectedPattern' = NoPattern
  /\ isDarkMode' = TRUE

\* No AI request was made, no detail view is mounted, nothing plays.
ReaderIdle ==
  /\ explainCodeInput = <<>>
  /\ explainLoading = FALSE
  /\ explanation = NoValue
  /\ detail = NoDetail
  /\ requests = NoRequests
  /\ sources = NoSources
  /\ ledger = NoLedger

\* No service worker is registered and the origin has no cache.
WorkerIdle ==
  /\ caches = NoCaches
  /\ worker = NoWorker
  /\ fetches = {}
  /\ served = NoAnswer

Init ==
  /\ catalog \in Catalogs
  /\ storage \in SlotsOf(catalog)
  /\ storageFull = FALSE
  /\ app = "unloaded"
  /\ bookmarks = JsArr(<<>>)
  /\ activeTab = "patterns"
  /\ searchQuery = <<>>
  /\ filteredPatterns = <<>>
  /\ pending = <<>>
  /\ effects = <<>>
  /\ applied = NothingApplied
  /\ held = NoValue
  /\ startup = "pending"
  /\ selectedPattern = NoPattern
  /\ detailEvent = NoDetailEvent
  /\ problemDesc = <<>>
  /\ aiLoading = FALSE
  /\ suggestion = NoSuggestion
  /\ isDarkMode = TRUE
  /\ ReaderIdle
  /\ WorkerIdle

\* ------------------------------------------------------------------------
\* React: mount, passive effects, render
\* ------------------------------------------------------------------------

\* An uncaught error in a render or in an effect: React unmounts the tree.
Crash(error) ==
  /\ app' = error
  /\ NoHooks

Crashed == app \in {"render-error", "effect-error"}

\* The first render of App: every hook has its initial value.
Mount ==
  /\ app = "unloaded"
  /\ app' = "mounted"
  /\ bookmarks' = JsArr(<<>>)
  /\ activeTab' = "patterns"
  /\ searchQuery' = <<>>
  /\ filteredPatterns' =
       FilteredPatterns(catalog, "patterns", <<>>, JsArr(<<>>))
  /\ pending' = <<>>
  /\ effects' = <<"load", "save">>
  /\ applied' = NothingApplied
  /\ selectedPattern' = NoPattern
  /\ isDarkMode' = TRUE
  /\ detailEvent' = NoDetailEvent
  /\ UNCHANGED <<catalog, storage, storageFull, held, startup, suggestVars,
                 readerVars, workerVars>>

\* The load effect keeping only the ids of catalog records.
LoadBookmarksKnownIds(saved) ==
  IF saved.has /\ saved.text # <<>>
  THEN LET parsed == JSONparse(saved.text) IN
       IF Thrown(parsed) THEN <<>>
       ELSE IF parsed.t = "arr"
       THEN <<SetBookmarksUpdate(
                JsArr(SelectSeq(parsed.a,
                  LAMBDA b : \E i \in 1..Len(catalog) :
                               b = JsStr(catalog[i].id))))>>
       ELSE <<SetBookmarksUpdate(parsed)>>
  ELSE <<>>

\* The load effect without its try / catch.
LoadBookmarksUnguarded(saved) ==
  IF saved.has /\ saved.text # <<>>
  THEN <<SetBookmarksUpdate(JSONparse(saved.text))>>
  ELSE <<>>

\* The effect "Load bookmarks on mount": the updates it queues.
LoadBookmarks(saved) ==
  IF saved.has /\ saved.text # <<>>
  THEN LET parsed == JSONparse(saved.text) IN
       IF Thrown(parsed) THEN <<>> ELSE <<SetBookmarksUpdate(parsed)>>
  ELSE <<>>

\* The effect "Save bookmarks on change": the slot after setItem.
SaveBookmarks(marks) == Item(JSONstringify(marks))

\* What the load effect finds in the slot: no item (or the empty text),
\* text that is not JSON, JSON that is not an array of strings, or an
\* array of strings.
SlotKind(saved) ==
  IF ~saved.has \/ saved.text = <<>> THEN "absent"
  ELSE LET parsed == JSONparse(saved.text) IN
       IF Thrown(parsed) THEN "corrupt"
       ELSE IF /\ parsed.t = "arr"
               /\ \A i \in 1..Len(parsed.a) : parsed.a[i].t = "str"
            THEN "valid"
            ELSE "invalid"

HasEffect(name) == \E i \in 1..Len(effects) : effects[i] = name

\* React runs the passive effects of the last commit, in order.  setItem
\* is not guarded: when it throws, the effect throws.
FlushEffects ==
  /\ app = "mounted"
  /\ effects # <<>>
  /\ IF HasEffect("save") /\ storageFull
     THEN /\ Crash("effect-error")
          /\ UNCHANGED <<storage, startup>>
     ELSE /\ pending' = IF HasEffect("load")
                        THEN pending \o LoadBookmarks(storage)
                        ELSE pending
          /\ storage' = IF HasEffect("save")
                        THEN SaveBookmarks(bookmarks)
                        ELSE storage
          /\ effects' = <<>>
          /\ applied' = NothingApplied
          /\ startup' = IF HasEffect("load") /\ startup = "pending"
                        THEN SlotKind(storage)
                        ELSE startup
          /\ UNCHANGED <<app, bookmarks, activeTab, searchQuery,
                         filteredPatterns, selectedPattern, isDarkMode>>
  /\ detailEvent' = NoDetailEvent
  /\ UNCHANGED <<catalog, storageFull, held, suggestVars,
                 readerVars, workerVars>>

\* The save effect with an empty dependency list: it runs on mount only.
ScheduledEffectsOnMountOnly(updates) == <<>>

\* The passive effects of a re-render: the save effect depends on
\* [bookmarks] and every bookmark update yields a new value.
ScheduledEffects(updates) ==
  IF SelectSeq(updates, IsBookmarkUpdate) # <<>> THEN <<"save">> ELSE <<>>

\* Whether rendering the detail view throws: its isBookmarked property.
DetailThrows(selected, marks) == selected # NoPattern /\ ~HasIncludes(marks)

\* React renders App with the given queue of updates applied.
RenderWith(updates) ==
  LET st == ApplyUpdates(HookState, updates)
      marksUpdates == SelectSeq(updates, IsBookmarkUpdate)
  IN IF \/ Thrown(st.bookmarks)
        \/ RenderThrows(catalog, st.activeTab, st.searchQuery, st.bookmarks)
        \/ DetailThrows(st.selectedPattern, st.bookmarks)
     THEN Crash("render-error")
     ELSE /\ bookmarks' = st.bookmarks
          /\ selectedPattern' = st.selectedPattern
          /\ isDarkMode' = st.isDarkMode
          /\ activeTab' = st.activeTab
          /\ searchQuery' = st.searchQuery
          /\ filteredPatterns' =
               FilteredPatterns(catalog, st.activeTab, st.searchQuery,
                                st.bookmarks)
          /\ pending' = <<>>
          /\ effects' = ScheduledEffects(updates)
          /\ applied' = IF marksUpdates # <<>>
                        THEN [updates |-> marksUpdates, prev |-> bookmarks]
                        ELSE NothingApplied
          /\ UNCHANGED app

\* React renders after bookmark updates were queued.
Render ==
  /\ app = "mounted"
  /\ effects = <<>>
  /\ pending # <<>>
  /\ RenderWith(pending)
  /\ detailEvent' = NoDetailEvent
  /\ UNCHANGED <<catalog, storage, storageFull, held, startup, suggestVars,
                 readerVars, workerVars>>

\* ------------------------------------------------------------------------
\* Events
\* ------------------------------------------------------------------------

VisibleIds == {filteredPatterns[i].id : i \in 1..Len(filteredPatterns)}

\* The bookmark button without stopPropagation: the click bubbles to the
\* card, whose onClick selects the record.
ClickBookmarkPropagates(id) ==
  /\ app = "mounted"
  /\ Len(pending) < MaxPending
  /\ id \in VisibleIds
  /\ pending' = pending \o
       <<ToggleUpdate(id),
         SelectUpdate(CHOOSE p \in {filteredPatterns[i] :
                                     i \in 1..Len(filteredPatterns)} :
                        p.id = id)>>
  /\ applied' = NothingApplied
  /\ held' = NoValue
  /\ startup' = "done"
  /\ detailEvent' = NoDetailEvent
  /\ UNCHANGED <<catalog, storage, storageFull, app, bookmarks, activeTab,
                 searchQuery, filteredPatterns, effects, selectedPattern,
                 isDarkMode, suggestVars,
                 readerVars, workerVars>>

\* The bookmark button of a visible card: onBookmarkToggle(pattern.id)
\* queues the updater.
ClickBookmark(id) ==
  /\ app = "mounted"
  /\ Len(pending) < MaxPending
  /\ id \in VisibleIds
  /\ pending' = Append(pending, ToggleUpdate(id))
  /\ applied' = NothingApplied
  /\ held' = NoValue
  /\ startup' = "done"
  /\ detailEvent' = NoDetailEvent
  /\ UNCHANGED <<catalog, storage, storageFull, app, bookmarks, activeTab,
                 searchQuery, filteredPatterns, effects, selectedPattern,
                 isDarkMode, suggestVars,
                 readerVars, workerVars>>

\* The search box: setSearchQuery(e.target.value), and the render that
\* React runs at the end of the event.
TypeSearch(q) ==
  /\ app = "mounted"
  /\ effects = <<>>
  /\ RenderWith(Append(pending, SearchUpdate(q)))
  /\ detailEvent' = NoDetailEvent
  /\ UNCHANGED <<catalog, storage, storageFull, held, startup, suggestVars,
                 readerVars, workerVars>>

\* The navigation of Layout: setActiveTab(tab), and the render that React
\* runs at the end of the event.
ClickTab(tab) ==
  /\ app = "mounted"
  /\ effects = <<>>
  /\ RenderWith(Append(pending, TabUpdate(tab)))
  /\ detailEvent' = NoDetailEvent
  /\ UNCHANGED <<catalog, storage, storageFull, held, startup, suggestVars,
                 readerVars, workerVars>>

\* The theme button of Layout: setIsDarkMode(!isDarkMode), and the render
\* that React runs at the end of the event.
toggleTheme ==
  /\ app = "mounted"
  /\ effects = <<>>
  /\ RenderWith(Append(pending, ThemeUpdate(~isDarkMode)))
  /\ detailEvent' = NoDetailEvent
  /\ UNCHANGED <<catalog, storage, storageFull, held, startup, suggestVars,
                 readerVars, workerVars>>

Quiescent ==
  /\ app = "mounted"
  /\ pending = <<>>
  /\ effects = <<>>

\* The page is closed or reloaded: the hook state is gone, the slot stays.
Unload ==
  /\ app # "unloaded"
  /\ app' = "unloaded"
  /\ NoHooks
  /\ held' = IF Quiescent THEN bookmarks ELSE NoValue
  /\ startup' = "pending"
  /\ detailEvent' = NoDetailEvent
  /\ UNCHANGED <<catalog, storage, storageFull, suggestVars,
                 readerVars, workerVars>>

\* The origin's storage runs out of quota, or gets room again.
StorageFills ==
  /\ ~storageFull
  /\ storageFull' = TRUE
  /\ UNCHANGED <<catalog, storage, app, bookmarks, activeTab, searchQuery,
                 filteredPatterns, pending, effects, applied, held, startup,
                 selectedPattern, detailEvent, isDarkMode, suggestVars,
                 readerVars, workerVars>>

StorageFrees ==
  /\ storageFull
  /\ storageFull' = FALSE
  /\ UNCHANGED <<catalog, storage, app, bookmarks, activeTab, searchQuery,
                 filteredPatterns, pending, effects, applied, held, startup,
                 selectedPattern, detailEvent, isDarkMode, suggestVars,
                 readerVars, workerVars>>

CatalogIds == {catalog[i].id : i \in 1..Len(catalog)}

CatalogRecords == {catalog[i] : i \in 1..Len(catalog)}

Next ==
  \/ Mount
  \/ FlushEffects
  \/ Render
  \/ \E id \in CatalogIds : ClickBookmark(id)
  \/ \E q \in Queries : TypeSearch(q)
  \/ \E tab \in Tabs : ClickTab(tab)
  \/ Unload

\* Sessions in which the storage always has room.
Spec == Init /\ [][Next]_vars

NextQuota ==
  \/ Next
  \/ StorageFills
  \/ StorageFrees

\* Sessions in which the storage may be full when the save effect runs.
SpecQuota == Init /\ [][NextQuota]_vars

\* ------------------------------------------------------------------------
\* The detail view
\* ------------------------------------------------------------------------

\* A click on the card of the selected record closing the detail view.
ClickCardToggles(p) ==
  /\ app = "mounted"
  /\ effects = <<>>
  /\ \E i \in 1..Len(filteredPatterns) : filteredPatterns[i] = p
  /\ RenderWith(Append(pending,
       SelectUpdate(IF selectedPattern = p THEN NoPattern ELSE p)))
  /\ detailEvent' = "select"
  /\ UNCHANGED <<catalog, storage, storageFull, held, startup, suggestVars,
                 readerVars, workerVars>>

\* A card of the grid is clicked: onClick(pattern) is setSelectedPattern,
\* which takes the record whatever the tab, the search text or the record
\* selected before.
ClickCard(p) ==
  /\ app = "mounted"
  /\ effects = <<>>
  /\ \E i \in 1..Len(filteredPatterns) : filteredPatterns[i] = p
  /\ RenderWith(Append(pending, SelectUpdate(p)))
  /\ detailEvent' = "select"
  /\ UNCHANGED <<catalog, storage, storageFull, held, startup, suggestVars,
                 readerVars, workerVars>>

\* The close button of the detail view: setSelectedPattern(null).
CloseDetail ==
  /\ app = "mounted"
  /\ effects = <<>>
  /\ selectedPattern # NoPattern
  /\ RenderWith(Append(pending, SelectUpdate(NoPattern)))
  /\ detailEvent' = "close"
  /\ UNCHANGED <<catalog, storage, storageFull, held, startup, suggestVars,
                 readerVars, workerVars>>

\* The bookmark button of the detail view:
\*   onBookmarkToggle?.(pattern.id), pattern the selected record.
ClickDetailBookmark ==
  /\ app = "mounted"
  /\ Len(pending) < MaxPending
  /\ selectedPattern # NoPattern
  /\ pending' = Append(pending, ToggleUpdate(selectedPattern.id))
  /\ applied' = NothingApplied
  /\ held' = NoValue
  /\ startup' = "done"
  /\ detailEvent' = NoDetailEvent
  /\ UNCHANGED <<catalog, storage, storageFull, app, bookmarks, activeTab,
                 searchQuery, filteredPatterns, effects, selectedPattern,
                 isDarkMode, suggestVars, readerVars, workerVars>>

IdsOf(list) == [i \in 1..Len(list) |-> list[i].id]

\* The position of the id in the list of ids, 0 when it is not there.
IndexOf(ids, id) ==
  IF \E i \in 1..Len(ids) : ids[i] = id
  THEN CHOOSE i \in 1..Len(ids) :
         ids[i] = id /\ \A j \in 1..(i - 1) : ids[j] # id
  ELSE 0

\* The id after the selected one in the list; the first id after the last
\* one and for a selection that is not in the list; the selection itself
\* for the empty list.
next(currentList, selectedId) ==
  LET n == Len(currentList)
      k == IndexOf(currentList, selectedId)
  IN IF n = 0 THEN selectedId
     ELSE IF k = 0 \/ k = n THEN currentList[1]
     ELSE currentList[k + 1]

\* The id before the selected one in the list; the last id before the
\* first one and for a selection that is not in the list; the selection
\* itself for the empty list.
prev(currentList, selectedId) ==
  LET n == Len(currentList)
      k == IndexOf(currentList, selectedId)
  IN IF n = 0 THEN selectedId
     ELSE IF k = 0 \/ k = 1 THEN currentList[n]
     ELSE currentList[k - 1]

\* The record of the shown list with the given id.
ShownRecord(id) ==
  filteredPatterns[IndexOf(IdsOf(filteredPatterns), id)]

\* The buttons 'Next Pattern' and 'Previous Pattern' of the detail view:
\* the selection moves within the shown list; with nothing shown the
\* handler returns without a state update.
Navigate(by, target) ==
  /\ app = "mounted"
  /\ effects = <<>>
  /\ detailEvent' = by
  /\ IF filteredPatterns = <<>>
     THEN UNCHANGED <<app, bookmarks, activeTab, searchQuery,
                      filteredPatterns, pending, effects, applied,
                      selectedPattern, isDarkMode>>
     ELSE RenderWith(Append(pending, SelectUpdate(ShownRecord(target))))
  /\ UNCHANGED <<catalog, storage, storageFull, held, startup, suggestVars,
                 readerVars, workerVars>>

onNext ==
  /\ selectedPattern # NoPattern
  /\ Navigate("next", next(IdsOf(filteredPatterns), selectedPattern.id))

onPrev ==
  /\ selectedPattern # NoPattern
  /\ Navigate("prev", prev(IdsOf(filteredPatterns), selectedPattern.id))

\* The slots the sessions with a detail view start from: no item, or an
\* array of strings.
DetailSlotsOf(patterns) ==
  IF patterns = FactoryCatalog
  THEN {NoItem,
        Item(JSONstringify(JsArr(<<JsStr(Singleton.id)>>))),
        Item(JSONstringify(JsArr(<<JsStr(Singleton.id),
                                   JsStr(AbstractFactory.id)>>)))}
  ELSE {NoItem,
        Item(JSONstringify(JsArr(<<JsStr(OrphanId), JsStr(Bridge.id)>>)))}

InitDetail ==
  /\ catalog \in Catalogs
  /\ storage \in DetailSlotsOf(catalog)
  /\ storageFull = FALSE
  /\ app = "unloaded"
  /\ bookmarks = JsArr(<<>>)
  /\ activeTab = "patterns"
  /\ searchQuery = <<>>
  /\ filteredPatterns = <<>>
  /\ pending = <<>>
  /\ effects = <<>>
  /\ applied = NothingApplied
  /\ held = NoValue
  /\ startup = "pending"
  /\ selectedPattern = NoPattern
  /\ detailEvent = NoDetailEvent
  /\ problemDesc = <<>>
  /\ aiLoading = FALSE
  /\ suggestion = NoSuggestion
  /\ isDarkMode = TRUE
  /\ ReaderIdle
  /\ WorkerIdle

NextDetail ==
  \/ Mount
  \/ FlushEffects
  \/ Render
  \/ \E q \in Queries : TypeSearch(q)
  \/ \E tab \in Tabs : ClickTab(tab)
  \/ Unload
  \/ \E p \in CatalogRecords : ClickCard(p)
  \/ CloseDetail
  \/ onNext
  \/ onPrev

\* Sessions in which cards are opened and the bookmarks are the ones the
\* slot holds: an array of strings, or nothing.
SpecDetail == InitDetail /\ [][NextDetail]_vars

NextFrame ==
  \/ Mount
  \/ FlushEffects
  \/ Render
  \/ \E id \in CatalogIds : ClickBookmark(id)
  \/ \E q \in Queries : TypeSearch(q)
  \/ \E tab \in Tabs : ClickTab(tab)
  \/ toggleTheme
  \/ \E p \in CatalogRecords : ClickCard(p)
  \/ ClickDetailBookmark
  \/ CloseDetail
  \/ Unload

\* The slot at the start: no item, an array of ids, or a bare string.
FrameSlotsOf(patterns) ==
  IF patterns = FactoryCatalog
  THEN {NoItem, Item(JSONstringify(JsArr(<<JsStr(Singleton.id)>>)))}
  ELSE {NoItem,
        Item(JSONstringify(JsArr(<<JsStr(Bridge.id)>>))),
        Item(JSONstringify(JsStr(Bridge.id)))}

InitFrame ==
  /\ catalog \in Catalogs
  /\ storage \in FrameSlotsOf(catalog)
  /\ storageFull = FALSE
  /\ app = "unloaded"
  /\ bookmarks = JsArr(<<>>)
  /\ activeTab = "patterns"
  /\ searchQuery = <<>>
  /\ filteredPatterns = <<>>
  /\ pending = <<>>
  /\ effects = <<>>
  /\ applied = NothingApplied
  /\ held = NoValue
  /\ startup = "pending"
  /\ selectedPattern = NoPattern
  /\ detailEvent = NoDetailEvent
  /\ problemDesc = <<>>
  /\ aiLoading = FALSE
  /\ suggestion = NoSuggestion
  /\ isDarkMode = TRUE
  /\ ReaderIdle
  /\ WorkerIdle

\* Sessions in which cards are opened and closed while bookmarks are
\* toggled, the search text, the tab and the theme change.
SpecFrame == InitFrame /\ [][NextFrame]_vars

\* ------------------------------------------------------------------------
\* The pattern suggestor (the App with the tabs 'patterns', 'ai', 'explain')
\* ------------------------------------------------------------------------

SuggestTabs == {"patterns", "ai", "explain"}

WhiteSpace == {" "}

\* String.prototype.trim.
RECURSIVE TrimStart(_)
TrimStart(s) ==
  IF s # <<>> /\ Head(s) \in WhiteSpace THEN TrimStart(Tail(s)) ELSE s

RECURSIVE TrimEnd(_)
TrimEnd(s) ==
  IF s # <<>> /\ s[Len(s)] \in WhiteSpace
  THEN TrimEnd(SubSeq(s, 1, Len(s) - 1))
  ELSE s

trim(s) == TrimEnd(TrimStart(s))

\* What is typed into 'Problem Description': nothing, blanks, a text.
ProblemTexts == {<<>>, <<" ", " ">>, <<" ", "p", "a", "y">>}

Reasoning == JsStr(<<"f", "i", "t", "s">>)

Suggested(patternId) == [patternId |-> patternId, reasoning |-> Reasoning]

\* What suggestPattern resolves to: null for a text that JSON.parse
\* rejects, or the parsed object, whose patternId is the id of a record,
\* a string that is no such id, the empty string, or missing.
SuggestResponses ==
  {NoSuggestion}
    \cup {Suggested(JsStr(id)) : id \in CatalogIds}
    \cup {Suggested(JsStr(OrphanId)), Suggested(JsStr(<<>>)),
          Suggested(NoValue)}

\* DESIGN_PATTERNS.find(p => p.id === patternId): the record, or undefined.
Find(patterns, patternId) ==
  IF \E i \in 1..Len(patterns) : JsStr(patterns[i].id) = patternId
  THEN patterns[CHOOSE i \in 1..Len(patterns) :
                  /\ JsStr(patterns[i].id) = patternId
                  /\ \A j \in 1..(i - 1) : JsStr(patterns[j].id) # patternId]
  ELSE NoPattern

\* The title of the panel reading .name of the record that was found,
\* without the optional chaining.
SuggestionTitleUnguarded(patterns, s) ==
  LET found == Find(patterns, s.patternId)
  IN IF found = NoPattern THEN TypeError ELSE JsStr(found.name)

\* The title of the suggestion panel:
\*   DESIGN_PATTERNS.find(...)?.name || suggestion.patternId
SuggestionTitle(patterns, s) ==
  LET found == Find(patterns, s.patternId)
  IN IF found # NoPattern /\ found.name # <<>>
     THEN JsStr(found.name)
     ELSE s.patternId

\* Whether rendering the App throws: the suggestion panel is rendered in
\* the tab 'ai' when there is a suggestion.
PanelThrows(tab, s) ==
  /\ tab = "ai"
  /\ s # NoSuggestion
  /\ Thrown(SuggestionTitle(catalog, s))

appOnlyVars ==
  <<catalog, storage, storageFull, bookmarks, searchQuery, filteredPatterns,
    pending, effects, applied, held, startup, isDarkMode, workerVars>>

explainVars == <<explainCodeInput, explainLoading, explanation>>

\* A call of the AI service that has not settled: whether the component
\* that made it is still mounted, and whether no later call of its kind
\* was made.
Request == [live |-> TRUE, fresh |-> TRUE]

InFlight(kind) == DOMAIN requests[kind]

Remove(seq, i) == SubSeq(seq, 1, i - 1) \o SubSeq(seq, i + 1, Len(seq))

\* A new call of this kind is made: the earlier ones are not the last.
Supersede(calls) == [i \in DOMAIN calls |-> [calls[i] EXCEPT !.fresh = FALSE]]

\* A call of App (a suggestion, an explanation) is made.
Ask(reqs, kind) ==
  [reqs EXCEPT ![kind] = Append(Supersede(@), Request)]

\* A call of PatternDetail (a diagram, a speech) is made.
Issue(reqs, kind) == [reqs EXCEPT ![kind] = Append(@, Request)]

\* The i-th call of this kind has settled.
Settle(reqs, kind, i) == [reqs EXCEPT ![kind] = Remove(@, i)]

\* stopSpeaking: stop the referenced source, drop the reference, clear
\* isSpeaking.  The 'ended' event of the stopped source comes later.
stopSpeaking(d, srcs) ==
  [detail |-> [d EXCEPT !.isSpeaking = FALSE, !.sourceNodeRef = NoSource],
   sources |-> IF d.sourceNodeRef # NoSource
               THEN [srcs EXCEPT ![d.sourceNodeRef].state = "stopped"]
               ELSE srcs]

\* PatternDetail is unmounted: what its calls and sources do from now on
\* reaches no mounted component.  A diagram call only sets state, which
\* React ignores then; a speech call still plays what it receives.
Orphaned(reqs) ==
  [reqs EXCEPT
     !["diagram"] = <<>>,
     !["speech"] = [i \in DOMAIN @ |-> [@[i] EXCEPT !.live = FALSE]]]

\* The effect of PatternDetail on [pattern] when the selection becomes
\* target: on mount fetchDiagram starts, on unmount the cleanup calls
\* stopSpeaking, on another pattern the cleanup runs and fetchDiagram
\* starts again.
Selects(target) ==
  LET stopped == stopSpeaking(detail, sources) IN
  IF target = selectedPattern
  THEN UNCHANGED <<detail, requests, sources>>
  ELSE IF target = NoPattern
  THEN /\ detail' = NoDetail
       /\ requests' = Orphaned(requests)
       /\ sources' = [id \in 1..MaxSources |->
                        [stopped.sources[id] EXCEPT !.live = FALSE]]
  ELSE IF selectedPattern = NoPattern
  THEN /\ detail' = [NoDetail EXCEPT !.mounted = TRUE,
                                     !.isGeneratingDiagram = TRUE]
       /\ requests' = Issue(requests, "diagram")
       /\ UNCHANGED sources
  ELSE /\ detail' = [stopped.detail EXCEPT !.isGeneratingDiagram = TRUE]
       /\ requests' = Issue(requests, "diagram")
       /\ sources' = stopped.sources

\* React renders the App with this tab and this suggestion.
RenderSuggestor(tab, loading, s) ==
  IF PanelThrows(tab, s)
  THEN /\ app' = "render-error"
       /\ activeTab' = "patterns"
       /\ problemDesc' = <<>>
       /\ aiLoading' = FALSE
       /\ suggestion' = NoSuggestion
       /\ selectedPattern' = NoPattern
  ELSE /\ activeTab' = tab
       /\ aiLoading' = loading
       /\ suggestion' = s
       /\ UNCHANGED <<app, problemDesc, selectedPattern>>

\* The navigation of Layout: setActiveTab(tab).
ChooseTab(tab) ==
  /\ app = "mounted"
  /\ RenderSuggestor(tab, aiLoading, suggestion)
  /\ detailEvent' = NoDetailEvent
  /\ UNCHANGED appOnlyVars
  /\ UNCHANGED readerVars

\* The textarea 'Problem Description': setProblemDesc(e.target.value).
TypeProblem(text) ==
  /\ app = "mounted"
  /\ activeTab = "ai"
  /\ problemDesc' = text
  /\ detailEvent' = NoDetailEvent
  /\ UNCHANGED <<app, activeTab, aiLoading, suggestion, selectedPattern>>
  /\ UNCHANGED appOnlyVars
  /\ UNCHANGED readerVars

\* handleSuggest up to its await; the button is disabled while a request
\* is out and for a blank description.
handleSuggest ==
  /\ app = "mounted"
  /\ activeTab = "ai"
  /\ ~aiLoading
  /\ trim(problemDesc) # <<>>
  /\ Cardinality(InFlight("suggest")) < MaxInFlight
  /\ RenderSuggestor(activeTab, TRUE, NoSuggestion)
  /\ requests' = Ask(requests, "suggest")
  /\ ledger' = [ledger EXCEPT !.suggestion = TRUE]
  /\ detailEvent' = NoDetailEvent
  /\ UNCHANGED appOnlyVars
  /\ UNCHANGED <<explainVars, detail, sources>>

\* handleSuggest after its await: setSuggestion(res), setAiLoading(false).
SuggestSettles(res) ==
  /\ app = "mounted"
  /\ \E i \in InFlight("suggest") :
       /\ requests' = Settle(requests, "suggest", i)
       /\ ledger' = [ledger EXCEPT
                       !.suggestion = requests["suggest"][i].fresh]
  /\ RenderSuggestor(activeTab, FALSE, res)
  /\ detailEvent' = NoDetailEvent
  /\ UNCHANGED appOnlyVars
  /\ UNCHANGED <<explainVars, detail, sources>>

\* The request was rejected: the catch logs, the finally clears aiLoading.
SuggestRejects ==
  /\ app = "mounted"
  /\ \E i \in InFlight("suggest") :
       requests' = Settle(requests, "suggest", i)
  /\ RenderSuggestor(activeTab, FALSE, suggestion)
  /\ detailEvent' = NoDetailEvent
  /\ UNCHANGED appOnlyVars
  /\ UNCHANGED <<explainVars, detail, sources, ledger>>

\* The button 'View Implementation':
\*   const pattern = DESIGN_PATTERNS.find(...);
\*   if (pattern) setSelectedPattern(pattern);
ViewImplementation ==
  /\ app = "mounted"
  /\ activeTab = "ai"
  /\ suggestion # NoSuggestion
  /\ LET pattern == Find(catalog, suggestion.patternId)
         target == IF pattern # NoPattern THEN pattern ELSE selectedPattern
     IN /\ \/ target = selectedPattern
           \/ Cardinality(InFlight("diagram")) < MaxInFlight
        /\ selectedPattern' = target
        /\ Selects(target)
  /\ detailEvent' = "view"
  /\ UNCHANGED <<app, activeTab, problemDesc, aiLoading, suggestion>>
  /\ UNCHANGED appOnlyVars
  /\ UNCHANGED <<explainVars, ledger>>

\* The close button of the detail view, in this App.
CloseImplementation ==
  /\ app = "mounted"
  /\ selectedPattern # NoPattern
  /\ selectedPattern' = NoPattern
  /\ Selects(NoPattern)
  /\ detailEvent' = "close"
  /\ UNCHANGED <<app, activeTab, problemDesc, aiLoading, suggestion>>
  /\ UNCHANGED appOnlyVars
  /\ UNCHANGED <<explainVars, ledger>>

\* This App has no effect to run: it is mounted, showing the catalog.
InitSuggest ==
  /\ catalog \in Catalogs
  /\ storage = NoItem
  /\ storageFull = FALSE
  /\ app = "mounted"
  /\ bookmarks = JsArr(<<>>)
  /\ activeTab = "patterns"
  /\ searchQuery = <<>>
  /\ filteredPatterns = catalog
  /\ pending = <<>>
  /\ effects = <<>>
  /\ applied = NothingApplied
  /\ held = NoValue
  /\ startup = "pending"
  /\ selectedPattern = NoPattern
  /\ detailEvent = NoDetailEvent
  /\ problemDesc = <<>>
  /\ aiLoading = FALSE
  /\ suggestion = NoSuggestion
  /\ isDarkMode = TRUE
  /\ ReaderIdle
  /\ WorkerIdle

NextSuggest ==
  \/ \E tab \in SuggestTabs : ChooseTab(tab)
  \/ \E text \in ProblemTexts : TypeProblem(text)
  \/ handleSuggest
  \/ \E res \in SuggestResponses : SuggestSettles(res)
  \/ SuggestRejects
  \/ ViewImplementation
  \/ CloseImplementation

\* Sessions of the App with the pattern suggestor.
SpecSuggest == InitSuggest /\ [][NextSuggest]_vars

\* ------------------------------------------------------------------------
\* The code explainer (tab 'explain' of the same App)
\* ------------------------------------------------------------------------

\* What is typed into the code box: nothing, a blank, a snippet.
CodeTexts == {<<>>, <<" ">>, <<" ", "x", ";">>}

\* What explainCode resolves to: response.text, a string or undefined.
ExplainResponses == {NoValue, JsStr(<<"o", "k">>)}

frameOfExplain ==
  <<app, activeTab, selectedPattern, suggestVars, detail, sources>>

\* The code box: setExplainCodeInput(e.target.value).
TypeCode(code) ==
  /\ app = "mounted"
  /\ activeTab = "explain"
  /\ explainCodeInput' = code
  /\ detailEvent' = NoDetailEvent
  /\ UNCHANGED <<explainLoading, explanation, requests, ledger>>
  /\ UNCHANGED frameOfExplain
  /\ UNCHANGED appOnlyVars

\* handleExplain with a button that is not disabled while a request is
\* out.
handleExplainWhileLoading ==
  /\ app = "mounted"
  /\ activeTab = "explain"
  /\ trim(explainCodeInput) # <<>>
  /\ Cardinality(InFlight("explain")) < MaxInFlight
  /\ explainLoading' = TRUE
  /\ explanation' = NoValue
  /\ requests' = Ask(requests, "explain")
  /\ ledger' = [ledger EXCEPT !.explanation = TRUE]
  /\ detailEvent' = NoDetailEvent
  /\ UNCHANGED explainCodeInput
  /\ UNCHANGED frameOfExplain
  /\ UNCHANGED appOnlyVars

\* handleExplain up to its await; the button is disabled while a request
\* is out and for a blank input.
handleExplain ==
  /\ app = "mounted"
  /\ activeTab = "explain"
  /\ ~explainLoading
  /\ trim(explainCodeInput) # <<>>
  /\ Cardinality(InFlight("explain")) < MaxInFlight
  /\ explainLoading' = TRUE
  /\ explanation' = NoValue
  /\ requests' = Ask(requests, "explain")
  /\ ledger' = [ledger EXCEPT !.explanation = TRUE]
  /\ detailEvent' = NoDetailEvent
  /\ UNCHANGED explainCodeInput
  /\ UNCHANGED frameOfExplain
  /\ UNCHANGED appOnlyVars

\* handleExplain after its await: setExplanation(res),
\* setExplainLoading(false).
ExplainSettles(res) ==
  /\ app = "mounted"
  /\ \E i \in InFlight("explain") :
       /\ requests' = Settle(requests, "explain", i)
       /\ ledger' = [ledger EXCEPT
                       !.explanation = requests["explain"][i].fresh]
  /\ explanation' = res
  /\ explainLoading' = FALSE
  /\ detailEvent' = NoDetailEvent
  /\ UNCHANGED explainCodeInput
  /\ UNCHANGED frameOfExplain
  /\ UNCHANGED appOnlyVars

\* explainCode was rejected: the catch logs, the finally clears the flag.
ExplainRejects ==
  /\ app = "mounted"
  /\ \E i \in InFlight("explain") :
       requests' = Settle(requests, "explain", i)
  /\ explainLoading' = FALSE
  /\ detailEvent' = NoDetailEvent
  /\ UNCHANGED <<explainCodeInput, explanation, ledger>>
  /\ UNCHANGED frameOfExplain
  /\ UNCHANGED appOnlyVars

NextAssist ==
  \/ \E tab \in SuggestTabs : ChooseTab(tab)
  \/ \E text \in ProblemTexts : TypeProblem(text)
  \/ handleSuggest
  \/ \E res \in SuggestResponses : SuggestSettles(res)
  \/ SuggestRejects
  \/ \E code \in CodeTexts : TypeCode(code)
  \/ handleExplain
  \/ \E res \in ExplainResponses : ExplainSettles(res)
  \/ ExplainRejects

\* Sessions of the App in which suggestions and explanations are asked.
SpecAssist == InitSuggest /\ [][NextAssist]_vars

\* ------------------------------------------------------------------------
\* PatternDetail: the diagram and the speech
\* ------------------------------------------------------------------------

frameOfDetail ==
  <<app, activeTab, selectedPattern, suggestVars, explainVars, ledger>>

\* A card of the grid, in this App: onClick={setSelectedPattern}.
OpenCard(p) ==
  /\ app = "mounted"
  /\ activeTab = "patterns"
  /\ \E i \in 1..Len(filteredPatterns) : filteredPatterns[i] = p
  /\ \/ p = selectedPattern
     \/ Cardinality(InFlight("diagram")) < MaxInFlight
  /\ selectedPattern' = p
  /\ Selects(p)
  /\ detailEvent' = "select"
  /\ UNCHANGED <<app, activeTab, suggestVars, explainVars, ledger>>
  /\ UNCHANGED appOnlyVars

DataUrl == "data:image/png;base64"

\* The promise of an async function was rejected.
Rejected == "rejected"

\* What the provider does with a request: it answers with the data asked
\* for, with a well-formed answer that holds no such data, with an answer
\* of another shape, or the call fails.
Outcomes == {"data", "no-data", "malformed", "failure"}

\* generateDiagram without its try / catch.
generateDiagramUncaught(outcome) ==
  CASE outcome = "data" -> DataUrl
    [] outcome = "no-data" -> NoUrl
    [] OTHER -> Rejected

\* generateDiagram: the data URL of the first inline image, or null; an
\* error of the call or of reading the answer is caught and yields null.
generateDiagram(outcome) ==
  IF outcome = "data" THEN DataUrl ELSE NoUrl

\* fetchDiagram after its await: setDiagramUrl(url),
\* setIsGeneratingDiagram(false).  It has no catch: were the promise
\* rejected, neither statement would run.
DiagramSettles(outcome) ==
  /\ app = "mounted"
  /\ \E i \in InFlight("diagram") :
       requests' = Settle(requests, "diagram", i)
  /\ LET url == generateDiagram(outcome)
     IN detail' = IF url = Rejected THEN detail
                  ELSE [detail EXCEPT !.diagramUrl = url,
                                      !.isGeneratingDiagram = FALSE]
  /\ detailEvent' = NoDetailEvent
  /\ UNCHANGED sources
  /\ UNCHANGED frameOfDetail
  /\ UNCHANGED appOnlyVars

\* The audio sources that exist.
Existing == {id \in 1..MaxSources : sources[id] # Idle}

\* The button 'Read Aloud' / 'Stop Reading', disabled while isTtsLoading:
\* stopSpeaking when speaking, else handleSpeak up to its await.
handleSpeak ==
  /\ app = "mounted"
  /\ detail.mounted
  /\ ~detail.isTtsLoading
  /\ IF detail.isSpeaking
     THEN LET stopped == stopSpeaking(detail, sources)
          IN /\ detail' = stopped.detail
             /\ sources' = stopped.sources
             /\ UNCHANGED requests
     ELSE /\ Cardinality(Existing) + Cardinality(InFlight("speech"))
               < MaxSources
          /\ detail' = [detail EXCEPT !.isTtsLoading = TRUE]
          /\ requests' = Issue(requests, "speech")
          /\ UNCHANGED sources
  /\ detailEvent' = NoDetailEvent
  /\ UNCHANGED frameOfDetail
  /\ UNCHANGED appOnlyVars

\* generateSpeech: the base64 audio of the answer, or null; an error of
\* the call or of reading the answer is caught and yields null.
generateSpeech(outcome) ==
  IF outcome = "data" THEN "pcm" ELSE "null"

\* What generateSpeech resolves to: audio that decodes, audio that
\* decodeBase64 or decodeAudioData rejects, or null.
SpeechResults == {generateSpeech(o) : o \in Outcomes} \cup {"bad-pcm"}

\* handleSpeak after its await.  With audio that decodes, a source is
\* created and started, sourceNodeRef refers to it and isSpeaking is set;
\* an error of the decoding is caught; the finally clears isTtsLoading.
\* The state of an unmounted component is not set, the source is started
\* all the same.
SpeechSettles(audio) ==
  /\ app = "mounted"
  /\ \E i \in InFlight("speech") :
       LET id == CHOOSE k \in 1..MaxSources :
                   /\ sources[k] = Idle
                   /\ \A j \in 1..(k - 1) : sources[j] # Idle
           owner == requests["speech"][i].live
       IN /\ requests' = Settle(requests, "speech", i)
          /\ sources' = IF audio = "pcm"
                        THEN [sources EXCEPT
                                ![id] = [state |-> "playing", live |-> owner]]
                        ELSE sources
          /\ detail' = IF ~owner THEN detail
                       ELSE IF audio = "pcm"
                       THEN [detail EXCEPT !.sourceNodeRef = id,
                                           !.isSpeaking = TRUE,
                                           !.isTtsLoading = FALSE]
                       ELSE [detail EXCEPT !.isTtsLoading = FALSE]
  /\ detailEvent' = NoDetailEvent
  /\ UNCHANGED frameOfDetail
  /\ UNCHANGED appOnlyVars

\* The 'ended' event of a source, when its audio is over or after stop():
\*   source.onended = () => { setIsSpeaking(false);
\*                            sourceNodeRef.current = null; }
SourceEnds(id) ==
  /\ app = "mounted"
  /\ sources[id] # Idle
  /\ sources' = [sources EXCEPT ![id] = Idle]
  /\ detail' = IF sources[id].live
               THEN [detail EXCEPT !.isSpeaking = FALSE,
                                   !.sourceNodeRef = NoSource]
               ELSE detail
  /\ detailEvent' = NoDetailEvent
  /\ UNCHANGED requests
  /\ UNCHANGED frameOfDetail
  /\ UNCHANGED appOnlyVars

NextSpeech ==
  \/ \E p \in CatalogRecords : OpenCard(p)
  \/ CloseImplementation
  \/ \E outcome \in Outcomes : DiagramSettles(outcome)
  \/ handleSpeak
  \/ \E audio \in SpeechResults : SpeechSettles(audio)
  \/ \E id \in 1..MaxSources : SourceEnds(id)

\* Sessions of the App in which patterns are opened and read aloud.
SpecSpeech == InitSuggest /\ [][NextSpeech]_vars

\* The App is mounted and both text boxes hold a text.
InitAI ==
  /\ catalog = BuilderCatalog
  /\ storage = NoItem
  /\ storageFull = FALSE
  /\ app = "mounted"
  /\ bookmarks = JsArr(<<>>)
  /\ activeTab = "patterns"
  /\ searchQuery = <<>>
  /\ filteredPatterns = catalog
  /\ pending = <<>>
  /\ effects = <<>>
  /\ applied = NothingApplied
  /\ held = NoValue
  /\ startup = "pending"
  /\ selectedPattern = NoPattern
  /\ detailEvent = NoDetailEvent
  /\ problemDesc = <<" ", "p", "a", "y">>
  /\ aiLoading = FALSE
  /\ suggestion = NoSuggestion
  /\ isDarkMode = TRUE
  /\ explainCodeInput = <<" ", "x", ";">>
  /\ explainLoading = FALSE
  /\ explanation = NoValue
  /\ detail = NoDetail
  /\ requests = NoRequests
  /\ sources = NoSources
  /\ ledger = NoLedger
  /\ WorkerIdle

\* suggestPattern resolves to null (JSON.parse rejected the text) or to an
\* object, or it is rejected (the call failed).
SuggestOutcome ==
  \/ \E res \in {NoSuggestion, Suggested(JsStr(Bridge.id))} :
       SuggestSettles(res)
  \/ SuggestRejects

ExplainOutcome ==
  \/ \E res \in ExplainResponses : ExplainSettles(res)
  \/ ExplainRejects

DiagramOutcome == \E outcome \in Outcomes : DiagramSettles(outcome)

SpeechOutcome == \E audio \in SpeechResults : SpeechSettles(audio)

NextAI ==
  \/ \E tab \in SuggestTabs : ChooseTab(tab)
  \/ handleSuggest
  \/ SuggestOutcome
  \/ handleExplain
  \/ ExplainOutcome
  \/ OpenCard(catalog[1])
  \/ CloseImplementation
  \/ DiagramOutcome
  \/ handleSpeak
  \/ SpeechOutcome
  \/ \E id \in 1..MaxSources : SourceEnds(id)

\* Sessions in which every kind of AI request is made, and every request
\* that is in flight settles: the call returns or fails, and the event
\* loop then runs the rest of the async function that awaits it.
SpecAI ==
  /\ InitAI
  /\ [][NextAI]_vars
  /\ WF_vars(SuggestOutcome)
  /\ WF_vars(ExplainOutcome)
  /\ WF_vars(DiagramOutcome)
  /\ WF_vars(SpeechOutcome)

\* ------------------------------------------------------------------------
\* The service worker (sw.js: the worker of 'cpp-patterns-v3' and the one
\* of 'cpp-patterns-v1')
\* ------------------------------------------------------------------------

pageVars ==
  <<catalog, storage, storageFull, app, bookmarks, activeTab, searchQuery,
    filteredPatterns, pending, effects, applied, held, startup,
    selectedPattern, detailEvent, isDarkMode, suggestVars, readerVars>>

Versions == {"v1", "v3"}

CACHE_NAME(version) ==
  IF version = "v3" THEN "cpp-patterns-v3" ELSE "cpp-patterns-v1"

OtherCache == "other-cache"

\* The names of the caches of the origin.
CacheNames == {CACHE_NAME(version) : version \in Versions} \cup {OtherCache}

RootUrl == <<"/">>

ScriptUrl == <<"/", "a", ".", "j", "s">>

FontUrl == <<"/", "f", ".", "w", "o", "f", "f", "2">>

\* An image whose URL carries a query.
ImageQueryUrl == <<"/", "i", ".", "p", "n", "g", "?", "v">>

PhotoUrl ==
  <<"/", "/", "u", "n", "s", "p", "l", "a", "s", "h", ".", "c", "o", "m",
    "/", "p", "?", "w">>

LibUrl == <<"/", "/", "e", "s", "m", ".", "s", "h", "/", "r">>

\* The URLs that pages request.
Urls == {RootUrl, ScriptUrl, FontUrl, ImageQueryUrl, PhotoUrl}

\* ASSETS, the list that install caches.
Assets(version) ==
  IF version = "v3" THEN {RootUrl, LibUrl} ELSE {RootUrl, ScriptUrl}

\* A regular expression /suffix$/.
EndsWith(url, suffix) ==
  /\ Len(url) >= Len(suffix)
  /\ SubSeq(url, Len(url) - Len(suffix) + 1, Len(url)) = suffix

\* url.match(/\.(woff2?)$/)
isFont(url) ==
  \/ EndsWith(url, <<".", "w", "o", "f", "f">>)
  \/ EndsWith(url, <<".", "w", "o", "f", "f", "2">>)

\* url.match(/\.(png|jpg|jpeg|svg)$/) || url.includes('unsplash.com')
isImage(url) ==
  \/ EndsWith(url, <<".", "p", "n", "g">>)
  \/ EndsWith(url, <<".", "j", "p", "g">>)
  \/ EndsWith(url, <<".", "j", "p", "e", "g">>)
  \/ EndsWith(url, <<".", "s", "v", "g">>)
  \/ StrIncludes(url, <<"u", "n", "s", "p", "l", "a", "s", "h", ".", "c",
                        "o", "m">>)

\* url.includes('esm.sh') || url.includes('tailwindcss.com')
isExternalLib(url) ==
  \/ StrIncludes(url, <<"e", "s", "m", ".", "s", "h">>)
  \/ StrIncludes(url, <<"t", "a", "i", "l", "w", "i", "n", "d", "c", "s",
                        "s", ".", "c", "o", "m">>)

\* A fetch handler that caches every network response.
FillsAnything(version, url) == version = "v3"

\* Whether the fetch handler caches the network response: the worker of
\* v3 does for fonts, images and libraries, the worker of v1 never does.
Fills(version, url) ==
  /\ version = "v3"
  /\ isFont(url) \/ isImage(url) \/ isExternalLib(url)

\* An activate handler that deletes every cache it finds.
StaleCachesAll(cacheNames, version) == cacheNames

\* The caches that activate deletes: cacheName !== CACHE_NAME.
StaleCaches(cacheNames, version) ==
  {cacheName \in cacheNames : cacheName # CACHE_NAME(version)}

\* caches.open(name): the cache is created when there is none.
Opened(store, name) ==
  [n \in DOMAIN store \cup {name} |->
     IF n \in DOMAIN store THEN store[n] ELSE {}]

\* cache.put / cache.addAll into the cache of this name.
Put(store, name, urls) ==
  [Opened(store, name) EXCEPT ![name] = @ \cup urls]

\* caches.delete(name).
Deleted(store, name) == [n \in DOMAIN store \ {name} |-> store[n]]

\* caches.match(request): a response in any cache of the origin.
HasMatch(store, url) == \E n \in DOMAIN store : url \in store[n]

\* The 'install' event: the cache is opened and ASSETS are added, all or
\* none.  The worker of v3 catches the failure of addAll; in the worker of
\* v1 it fails the installation.
Install(ok) ==
  /\ worker.step = "parsed"
  /\ caches' = IF ok
               THEN Put(caches, CACHE_NAME(worker.version),
                        Assets(worker.version))
               ELSE Opened(caches, CACHE_NAME(worker.version))
  /\ worker' = [worker EXCEPT
                  !.step = IF ok \/ worker.version = "v3"
                           THEN "installed" ELSE "redundant",
                  !.precached = ok]
  /\ UNCHANGED <<fetches, served>>
  /\ UNCHANGED pageVars

\* The 'activate' event up to the answer of caches.keys().
Activate ==
  /\ worker.step = "installed"
  /\ worker' = [worker EXCEPT
                  !.step = "activating",
                  !.found = DOMAIN caches,
                  !.todo = StaleCaches(DOMAIN caches, worker.version)]
  /\ UNCHANGED <<caches, fetches, served>>
  /\ UNCHANGED pageVars

\* One caches.delete(cacheName) of the Promise.all settles.
DeleteCache(name) ==
  /\ worker.step = "activating"
  /\ name \in worker.todo
  /\ caches' = Deleted(caches, name)
  /\ worker' = [worker EXCEPT !.todo = @ \ {name}]
  /\ UNCHANGED <<fetches, served>>
  /\ UNCHANGED pageVars

\* The Promise.all has settled: the worker is active.
Activated ==
  /\ worker.step = "activating"
  /\ worker.todo = {}
  /\ worker' = [worker EXCEPT !.step = "activated"]
  /\ UNCHANGED <<caches, fetches, served>>
  /\ UNCHANGED pageVars

Network(url) == [url |-> url, stage |-> "network"]

Filling(url) == [url |-> url, stage |-> "fill"]

\* The 'fetch' event up to the answer of caches.match: the cached response
\* is the answer, or fetch(event.request) is called.
FetchEvent(url) ==
  /\ worker.step = "activated"
  /\ Cardinality(fetches) < MaxFetches
  /\ IF HasMatch(caches, url)
     THEN /\ served' = [url |-> url, from |-> "cache"]
          /\ UNCHANGED fetches
     ELSE /\ fetches' = fetches \cup {Network(url)}
          /\ UNCHANGED served
  /\ UNCHANGED <<caches, worker>>
  /\ UNCHANGED pageVars

\* fetch(event.request) is fulfilled: the network response is the answer,
\* and the worker of v3 goes on to cache a clone of it.
NetworkResponds(url) ==
  /\ Network(url) \in fetches
  /\ served' = [url |-> url, from |-> "network"]
  /\ fetches' = (fetches \ {Network(url)}) \cup
                  (IF Fills(worker.version, url) THEN {Filling(url)}
                   ELSE {})
  /\ UNCHANGED <<caches, worker>>
  /\ UNCHANGED pageVars

\* fetch(event.request) is rejected: so is the answer.
NetworkFails(url) ==
  /\ Network(url) \in fetches
  /\ served' = [url |-> url, from |-> "error"]
  /\ fetches' = fetches \ {Network(url)}
  /\ UNCHANGED <<caches, worker>>
  /\ UNCHANGED pageVars

\* caches.open(CACHE_NAME).then(cache => cache.put(event.request, clone))
FillCache(url) ==
  /\ Filling(url) \in fetches
  /\ caches' = Put(caches, CACHE_NAME(worker.version), {url})
  /\ fetches' = fetches \ {Filling(url)}
  /\ UNCHANGED <<worker, served>>
  /\ UNCHANGED pageVars

\* The caches of the origin when the worker is installed: none, the cache
\* of an earlier worker, its own cache from an earlier installation, or
\* these and a cache of another name.
PriorCaches ==
  {NoCaches,
   [n \in {CACHE_NAME("v1")} |-> {RootUrl}],
   [n \in {CACHE_NAME("v3")} |-> {RootUrl, FontUrl}],
   [n \in CacheNames |->
      IF n = OtherCache THEN {ScriptUrl} ELSE {RootUrl}]}

InitWorker ==
  /\ catalog \in Catalogs
  /\ storage = NoItem
  /\ storageFull = FALSE
  /\ app = "unloaded"
  /\ bookmarks = JsArr(<<>>)
  /\ activeTab = "patterns"
  /\ searchQuery = <<>>
  /\ filteredPatterns = <<>>
  /\ pending = <<>>
  /\ effects = <<>>
  /\ applied = NothingApplied
  /\ held = NoValue
  /\ startup = "pending"
  /\ selectedPattern = NoPattern
  /\ detailEvent = NoDetailEvent
  /\ problemDesc = <<>>
  /\ aiLoading = FALSE
  /\ suggestion = NoSuggestion
  /\ isDarkMode = TRUE
  /\ ReaderIdle
  /\ caches \in PriorCaches
  /\ worker \in {[NoWorker EXCEPT !.version = v, !.step = "parsed"] :
                   v \in Versions}
  /\ fetches = {}
  /\ served = NoAnswer

NextWorker ==
  \/ \E ok \in BOOLEAN : Install(ok)
  \/ Activate
  \/ \E name \in CacheNames : DeleteCache(name)
  \/ Activated
  \/ \E url \in Urls : FetchEvent(url)
  \/ \E url \in Urls : NetworkResponds(url)
  \/ \E url \in Urls : NetworkFails(url)
  \/ \E url \in Urls : FillCache(url)

\* The life of one service worker, from its installation on.
SpecWorker == InitWorker /\ [][NextWorker]_vars

\* ------------------------------------------------------------------------
\* Bookmark persistence
\* ------------------------------------------------------------------------

IsArray(v) == v.t = "arr"

\* The bookmark set an array denotes.
AsSet(v) == {v.a[i] : i \in 1..Len(v.a)}

Bookmarked(id) == JsArr(<<JsStr(id)>>)

\* C1: a bookmark set that was held and persisted when the page was closed
\* is exactly the in-memory set once the next session has started, ids
\* without a catalog record included.
BookmarkRoundTrip ==
  (Quiescent /\ held # NoValue) => bookmarks = held

\* A session started with an orphaned id and a bookmark toggled in the
\* session before.
BookmarkRoundTripWitness ==
  /\ Quiescent
  /\ held = JsArr(<<JsStr(OrphanId), JsStr(Bridge.id), JsStr(Builder.id)>>)
  /\ bookmarks = held

\* C2: once the render and the save effect that follow a mutation have
\* run, the slot holds the whole current bookmark set, whatever it held
\* before.
SlotHoldsCurrentSet ==
  Quiescent => (storage.has /\ JSONparse(storage.text) = bookmarks)

\* The loaded set lost Bridge and gained Builder, and the slot was
\* rewritten.
SlotHoldsCurrentSetWitness ==
  /\ Quiescent
  /\ bookmarks = JsArr(<<JsStr(OrphanId), JsStr(Builder.id)>>)
  /\ storage = Item(JSONstringify(bookmarks))

\* A step of React that renders with exactly the given updates queued on
\* an array of bookmarks.
RendersUpdates(n) ==
  /\ app = "mounted"
  /\ effects = <<>>
  /\ IsArray(bookmarks)
  /\ Len(pending) = n
  /\ \A i \in 1..n : pending[i].hook = "toggle"
  /\ pending' = <<>>
  /\ app' # "unloaded"

\* C3: a toggle never fails and flips the membership of its id only; every
\* other element of the set, orphaned ids included, stays as it was.
ToggleFlipsOnlyId ==
  [][RendersUpdates(1) =>
       /\ app' = "mounted"
       /\ IsArray(bookmarks')
       /\ LET id == pending[1].x IN
          \A b \in AsSet(bookmarks) \cup AsSet(bookmarks') \cup {id} :
            IF b = id
            THEN (b \in AsSet(bookmarks')) <=> (b \notin AsSet(bookmarks))
            ELSE (b \in AsSet(bookmarks')) <=> (b \in AsSet(bookmarks))]_vars

\* Bridge was removed from a set that also holds an orphaned id.
ToggleFlipsOnlyIdWitness ==
  /\ app = "mounted"
  /\ applied = [updates |-> <<ToggleUpdate(Bridge.id)>>,
                prev |-> JsArr(<<JsStr(OrphanId), JsStr(Bridge.id)>>)]
  /\ bookmarks = Bookmarked(OrphanId)

\* C4: two toggles of the same id leave the bookmark set as it was.
ToggleTwiceRestores ==
  [][(RendersUpdates(2) /\ pending[1] = pending[2]) =>
       /\ app' = "mounted"
       /\ IsArray(bookmarks')
       /\ AsSet(bookmarks') = AsSet(bookmarks)]_vars

\* Abstract Factory was toggled twice in one render, starting in the set.
ToggleTwiceRestoresWitness ==
  /\ app = "mounted"
  /\ applied.updates = <<ToggleUpdate(AbstractFactory.id),
                         ToggleUpdate(AbstractFactory.id)>>
  /\ JsStr(AbstractFactory.id) \in AsSet(applied.prev)
  /\ JsStr(Singleton.id) \in AsSet(applied.prev)
  /\ AsSet(bookmarks) = AsSet(applied.prev)

\* C5: when the slot is missing or is not JSON, the session has the empty
\* bookmark set and App stays mounted.
AbsentOrCorruptLoadsEmpty ==
  startup \in {"absent", "corrupt"} =>
    /\ app = "mounted"
    /\ pending = <<>>
    /\ bookmarks = JsArr(<<>>)

\* A session that found text that is not JSON and went on to show the
\* (empty) bookmarks tab.
AbsentOrCorruptLoadsEmptyWitness ==
  /\ startup = "corrupt"
  /\ Quiescent
  /\ activeTab = "bookmarks"
  /\ filteredPatterns = <<>>

\* C6: when the slot holds JSON that is not an array of strings, the
\* session has the empty bookmark set and App stays mounted.
InvalidSlotLoadsEmpty ==
  startup = "invalid" =>
    /\ app = "mounted"
    /\ bookmarks = JsArr(<<>>)

\* C7: a save effect whose setItem throws does not take App down.
FailedSaveKeepsApp ==
  app # "effect-error"

\* ------------------------------------------------------------------------
\* The filter
\* ------------------------------------------------------------------------

\* sub can be obtained from seq by deleting elements.
IsSubsequence(sub, seq) ==
  \E f \in [1..Len(sub) -> 1..Len(seq)] :
    /\ \A i \in 1..Len(sub) : sub[i] = seq[f[i]]
    /\ \A i, j \in 1..Len(sub) : i < j => f[i] < f[j]

Shown == {filteredPatterns[i] : i \in 1..Len(filteredPatterns)}

\* C8: the grid shows a subsequence of the catalog: catalog order, every
\* record at most once.
FilterPreservesOrder ==
  app = "mounted" => IsSubsequence(filteredPatterns, catalog)

\* The bookmarks were made in the order Singleton, Abstract Factory; the
\* bookmarks tab shows them in catalog order, Factory Method left out.
FilterPreservesOrderWitness ==
  /\ app = "mounted"
  /\ activeTab = "bookmarks"
  /\ bookmarks = JsArr(<<JsStr(Singleton.id), JsStr(AbstractFactory.id)>>)
  /\ filteredPatterns = <<AbstractFactory, Singleton>>

\* The two cases of each letter.
LetterPairs == {{UpperCaseLetters[k], LowerCaseLetters[k]} : k \in 1..26}

\* Two characters that are equal or are the two cases of one letter.
SameIgnoringCase(c, d) ==
  \/ c = d
  \/ {c, d} \in LetterPairs

\* needle occurs in hay when the case of letters is ignored.
OccursIgnoringCase(needle, hay) ==
  \E off \in 0..(Len(hay) - Len(needle)) :
    \A j \in 1..Len(needle) : SameIgnoringCase(hay[off + j], needle[j])

QueryOccursIn(p, query) ==
  \/ OccursIgnoringCase(query, p.name)
  \/ OccursIgnoringCase(query, p.description)
  \/ OccursIgnoringCase(query, p.category)

\* The records the scope admits before the text match.
InWorkingSet(p) == activeTab = "patterns" \/ Includes(bookmarks, p.id)

\* C9: a record of the working set is shown exactly when the search text
\* occurs, case ignored, in its name, description or category; search
\* texts that differ in case only show the same list, and a text that
\* occurs nowhere shows the empty list.
FilterMatchesIgnoringCase ==
  app = "mounted" =>
    /\ \A p \in CatalogRecords :
         InWorkingSet(p) => (p \in Shown <=> QueryOccursIn(p, searchQuery))
    /\ \A q \in Queries :
         toLowerCase(q) = toLowerCase(searchQuery) =>
           FilteredPatterns(catalog, activeTab, q, bookmarks)
             = filteredPatterns

\* "FACTO" shows the two factories and not Singleton.
FilterMatchesIgnoringCaseWitness ==
  /\ app = "mounted"
  /\ activeTab = "patterns"
  /\ searchQuery = QueryFACTO
  /\ filteredPatterns = <<AbstractFactory, FactoryMethod>>

\* C10: the bookmarks tab shows, in catalog order, exactly the records
\* that are bookmarked and match the search text; the patterns tab shows
\* exactly the records that match, whatever is bookmarked.
ScopeRestrictsToBookmarks ==
  (app = "mounted" /\ IsArray(bookmarks)) =>
    /\ IsSubsequence(filteredPatterns, catalog)
    /\ activeTab = "bookmarks" =>
         Shown = {p \in CatalogRecords :
                    JsStr(p.id) \in AsSet(bookmarks)
                      /\ QueryOccursIn(p, searchQuery)}
    /\ activeTab = "patterns" =>
         Shown = {p \in CatalogRecords : QueryOccursIn(p, searchQuery)}

\* Bridge is bookmarked, "Creat" matches Builder only: nothing is shown.
ScopeRestrictsToBookmarksWitness ==
  /\ app = "mounted"
  /\ catalog = BuilderCatalog
  /\ activeTab = "bookmarks"
  /\ bookmarks = Bookmarked(Bridge.id)
  /\ searchQuery = QueryCreat
  /\ filteredPatterns = <<>>

\* C11: in the patterns tab with the empty search text the grid shows the
\* whole catalog, in order, whatever the bookmarks are.
EmptyQueryShowsCatalog ==
  (app = "mounted" /\ activeTab = "patterns" /\ searchQuery = QueryEmpty)
    => filteredPatterns = catalog

\* The patterns tab with no search text, after a bookmark was clicked in a
\* session that loaded Bridge and an orphaned id.
EmptyQueryShowsCatalogWitness ==
  /\ app = "mounted"
  /\ activeTab = "patterns"
  /\ searchQuery = QueryEmpty
  /\ bookmarks = JsArr(<<JsStr(OrphanId), JsStr(Bridge.id)>>)
  /\ startup = "done"
  /\ filteredPatterns = BuilderCatalog

\* C12: filtering the shown list again, with the same bookmarks, tab and
\* search text, gives the shown list.
FilterIsIdempotent ==
  app = "mounted" =>
    FilteredPatterns(filteredPatterns, activeTab, searchQuery, bookmarks)
      = filteredPatterns

\* "facto" in the patterns tab: two of three records are shown, and
\* filtering them again keeps both.
FilterIsIdempotentWitness ==
  /\ app = "mounted"
  /\ activeTab = "patterns"
  /\ searchQuery = QueryFacto
  /\ bookmarks = Bookmarked(Singleton.id)
  /\ filteredPatterns = <<AbstractFactory, FactoryMethod>>

\* The bookmarked ids that no catalog record has.
Orphans(v) == {b \in AsSet(v) : b.t = "str" /\ b.s \notin CatalogIds}

WithoutOrphans(v) == JsArr(SelectSeq(v.a, LAMBDA b : b \notin Orphans(v)))

\* C13: with orphaned ids in the bookmarks, every step short of closing
\* the page leaves App mounted and the orphaned ids in the set; the grid
\* is the one the bookmarks without the orphaned ids would give, in either
\* tab; includes and the toggle updater work for every id.
OrphanedIdsAreInert ==
  [][(/\ app = "mounted"
      /\ IsArray(bookmarks)
      /\ Orphans(bookmarks) # {}
      /\ app' # "unloaded") =>
       /\ app' = "mounted"
       /\ IsArray(bookmarks')
       /\ Orphans(bookmarks) \subseteq AsSet(bookmarks')
       /\ filteredPatterns' =
            FilteredPatterns(catalog, activeTab', searchQuery',
                             WithoutOrphans(bookmarks'))
       /\ \A id \in CatalogIds \cup {OrphanId} :
            /\ HasIncludes(bookmarks')
            /\ IsArray(toggleBookmark(bookmarks', id))
            /\ Includes(toggleBookmark(bookmarks', id), id)
                 = ~Includes(bookmarks', id)]_vars

\* Bridge was removed in the bookmarks tab from a set that also held an
\* orphaned id: the tab shows nothing and the orphaned id is still there.
OrphanedIdsAreInertWitness ==
  /\ app = "mounted"
  /\ activeTab = "bookmarks"
  /\ applied.updates = <<ToggleUpdate(Bridge.id)>>
  /\ JsStr(OrphanId) \in AsSet(applied.prev)
  /\ bookmarks = Bookmarked(OrphanId)
  /\ filteredPatterns = <<>>

\* ------------------------------------------------------------------------
\* Selection and navigation
\* ------------------------------------------------------------------------

\* The ids of the records that the tab and the search text admit, in
\* catalog order.
AdmittedIds ==
  IdsOf(SelectSeq(catalog,
          LAMBDA p : InWorkingSet(p) /\ QueryOccursIn(p, searchQuery)))

Position(ids, id) == {k \in 1..Len(ids) : ids[k] = id}

SelectAndClear ==
  [][/\ \A p \in CatalogRecords :
          ClickCard(p) => (app' = "mounted" /\ selectedPattern' = p)
     /\ CloseDetail => (app' = "mounted" /\ selectedPattern' = NoPattern)
     /\ selectedPattern' \in CatalogRecords \cup {NoPattern}]_vars

\* A record was opened, the bookmarks tab and a search text were chosen,
\* and the detail view was closed.
SelectAndClearWitness ==
  /\ app = "mounted"
  /\ detailEvent = "close"
  /\ activeTab = "bookmarks"
  /\ searchQuery = QueryCreat
  /\ selectedPattern = NoPattern

\* ------------------------------------------------------------------------
\* Suggestions
\* ------------------------------------------------------------------------

\* The suggestion names no record of the catalog.
NamesNoRecord(s) ==
  /\ s # NoSuggestion
  /\ \A p \in CatalogRecords : JsStr(p.id) # s.patternId

\* C18: a suggestion whose patternId is the id of no record is stored and
\* rendered with App staying mounted, the panel shows the patternId as it
\* came, and 'View Implementation' leaves the selection as it was.
UnknownSuggestionIsInert ==
  [][/\ \A res \in SuggestResponses :
          (NamesNoRecord(res) /\ SuggestSettles(res)) =>
            (app' = "mounted" /\ suggestion' = res)
     /\ NamesNoRecord(suggestion) =>
          /\ app' = "mounted"
          /\ ViewImplementation => selectedPattern' = selectedPattern
     /\ (NamesNoRecord(suggestion') /\ activeTab' = "ai") =>
          SuggestionTitle(catalog, suggestion') = suggestion'.patternId]_vars

\* Bridge was opened from a suggestion; a later suggestion names no record
\* and 'View Implementation' was clicked: Bridge is still selected.
UnknownSuggestionIsInertWitness ==
  /\ app = "mounted"
  /\ detailEvent = "view"
  /\ suggestion = Suggested(JsStr(OrphanId))
  /\ selectedPattern = Bridge

\* ------------------------------------------------------------------------
\* The empty state
\* ------------------------------------------------------------------------

\* C19: when nothing is shown, the message names the cause: the one about
\* no bookmarks appears only in the bookmarks tab with no catalog record
\* bookmarked, and when the tab admits records and the search text matches
\* none of them, the message is the one about the search.
EmptyStateNamesCause ==
  (app = "mounted" /\ filteredPatterns = <<>>) =>
    /\ EmptyStateMessage(activeTab) = NothingBookmarkedMessage =>
         /\ activeTab = "bookmarks"
         /\ \A p \in CatalogRecords : ~Includes(bookmarks, p.id)
    /\ (\E p \in CatalogRecords : InWorkingSet(p)) =>
         EmptyStateMessage(activeTab) = NoMatchMessage

\* ------------------------------------------------------------------------
\* Toggles in sequence
\* ------------------------------------------------------------------------

IsStringArray(v) ==
  IsArray(v) /\ \A i \in 1..Len(v.a) : v.a[i].t = "str"

\* The set after the toggles among the updates, applied in order.
RECURSIVE ToggledInOrder(_, _)
ToggledInOrder(set, updates) ==
  IF updates = <<>> THEN set
  ELSE LET u == Head(updates)
           toggled ==
             IF u.hook # "toggle" THEN set
             ELSE IF u.x \in set THEN set \ {u.x}
             ELSE set \cup {u.x}
       IN ToggledInOrder(toggled, Tail(updates))

\* The bookmarks the toggles of the last commit started from: the loaded
\* array when the load effect delivered it to that commit, else the
\* bookmarks of the render before.
Loaded(updates) == SelectSeq(updates, LAMBDA u : u.hook = "bookmarks")

ToggleBase ==
  IF Loaded(applied.updates) # <<>>
  THEN Loaded(applied.updates)[1].x
  ELSE applied.prev

\* C20: the bookmarks a commit leaves are the ones it started from with
\* every toggle handled since applied in order, however many toggles were
\* handled before the render and whatever effects were still waiting; and
\* once nothing is queued or waiting, the slot holds the same set.
NoToggleIsLost ==
  /\ (/\ app = "mounted"
      /\ applied # NothingApplied
      /\ IsStringArray(ToggleBase)) =>
       /\ IsArray(bookmarks)
       /\ AsSet(bookmarks) = ToggledInOrder(AsSet(ToggleBase), applied.updates)
  /\ (Quiescent /\ IsStringArray(bookmarks)) =>
       /\ storage.has
       /\ IsArray(JSONparse(storage.text))
       /\ AsSet(JSONparse(storage.text)) = AsSet(bookmarks)

\* ------------------------------------------------------------------------
\* Frame of the bookmark button
\* ------------------------------------------------------------------------

\* C21: a click on the bookmark button of a card queues the toggle of that
\* card's id and nothing else; neither the click nor the render that
\* applies it changes the selection, the search text or the tab.
BookmarkClickOnlyToggles ==
  [][/\ \A id \in CatalogIds :
          ClickBookmark(id) =>
            /\ pending' = Append(pending, ToggleUpdate(id))
            /\ UNCHANGED <<selectedPattern, searchQuery, activeTab,
                           bookmarks, filteredPatterns>>
     /\ (Render /\ app' = "mounted") =>
          UNCHANGED <<selectedPattern, searchQuery, activeTab>>]_vars

\* Builder was bookmarked from its card while "Creat" was the search text:
\* the text and the tab are as before and no detail view is open.
BookmarkClickOnlyTogglesWitness ==
  /\ app = "mounted"
  /\ applied = [updates |-> <<ToggleUpdate(Builder.id)>>,
                prev |-> JsArr(<<>>)]
  /\ bookmarks = Bookmarked(Builder.id)
  /\ searchQuery = QueryCreat
  /\ activeTab = "patterns"
  /\ selectedPattern = NoPattern

\* ------------------------------------------------------------------------
\* The slot during startup
\* ------------------------------------------------------------------------

\* C23: when the effects of the mount run with nothing queued by the user
\* and the slot holds a non-empty array of strings, the slot decodes to the
\* same array afterwards: nothing is written before the array is loaded.
StartupKeepsSlot ==
  [][(/\ FlushEffects
      /\ HasEffect("load")
      /\ pending = <<>>
      /\ SlotKind(storage) = "valid"
      /\ JSONparse(storage.text).a # <<>>)
       => (/\ storage'.has
           /\ JSONparse(storage'.text) = JSONparse(storage.text))]_vars

\* ------------------------------------------------------------------------
\* Duplicates
\* ------------------------------------------------------------------------

\* An array of strings in which no string occurs twice.
DupFree(v) ==
  /\ IsStringArray(v)
  /\ \A i, j \in 1..Len(v.a) : v.a[i] = v.a[j] => i = j

\* C24: a step that starts with duplicate-free bookmarks, and with no
\* loaded value waiting that has a duplicate, ends with duplicate-free
\* bookmarks; and toggling an id the list holds leaves no occurrence of it.
NoDuplicateBookmarks ==
  [][/\ (/\ DupFree(bookmarks)
         /\ \A i \in 1..Len(pending) :
              pending[i].hook = "bookmarks" => DupFree(pending[i].x))
          => DupFree(bookmarks')
     /\ \A id \in CatalogIds \cup {OrphanId} :
          (IsArray(bookmarks') /\ Includes(bookmarks', id)) =>
            ~Includes(toggleBookmark(bookmarks', id), id)]_vars

\* Bridge was bookmarked; Builder was toggled on and Bridge toggled off in
\* one render.
NoDuplicateBookmarksWitness ==
  /\ app = "mounted"
  /\ applied = [updates |-> <<ToggleUpdate(Builder.id),
                              ToggleUpdate(Bridge.id)>>,
                prev |-> Bookmarked(Bridge.id)]
  /\ bookmarks = Bookmarked(Builder.id)

\* ------------------------------------------------------------------------
\* Frame of the selection
\* ------------------------------------------------------------------------

\* C25: the selected pattern changes only when a card is clicked or the
\* detail view is closed (or the page is closed): typing in the search
\* box, switching the tab, toggling the theme, clicking a bookmark button
\* and the renders that apply the toggles leave it as it was.
SelectionChangesBySelectAndClear ==
  [][selectedPattern' # selectedPattern =>
       \/ \E p \in CatalogRecords : ClickCard(p)
       \/ CloseDetail
       \/ Unload]_vars

\* ------------------------------------------------------------------------
\* Requests in flight
\* ------------------------------------------------------------------------

\* C28: at most one suggestion request and at most one explanation request
\* is in flight, its loading flag is set for as long as it is, and what is
\* displayed was answered to the request issued last.
OneRequestInFlight ==
  /\ Cardinality(InFlight("suggest")) <= 1
  /\ Cardinality(InFlight("explain")) <= 1
  /\ InFlight("suggest") # {} => aiLoading
  /\ InFlight("explain") # {} => explainLoading
  /\ ledger.suggestion
  /\ ledger.explanation

\* A suggestion request and an explanation request are in flight at the
\* same time, each with its flag set and its panel cleared.
OneRequestInFlightWitness ==
  /\ app = "mounted"
  /\ aiLoading
  /\ Cardinality(InFlight("suggest")) = 1
  /\ explanation = NoValue
  /\ explainCodeInput = <<" ", "x", ";">>
  /\ problemDesc = <<" ", "p", "a", "y">>
  /\ explainLoading
  /\ suggestion = NoSuggestion

\* ------------------------------------------------------------------------
\* Speech
\* ------------------------------------------------------------------------

Playing == {id \in 1..MaxSources : sources[id].state = "playing"}

\* C26: while no detail view is open, no audio source is playing: closing
\* stops the playing source, and the answer to a speech request that was
\* pending at the close starts none.
ClosedDetailIsSilent ==
  ~detail.mounted => Playing = {}

\* C27: in the detail view, isSpeaking is set exactly when the source that
\* sourceNodeRef refers to is playing, and every playing source of the
\* view is the one referred to, so that the button stops it.
SpeakingIffPlaying ==
  detail.mounted =>
    /\ detail.isSpeaking <=>
         /\ detail.sourceNodeRef # NoSource
         /\ sources[detail.sourceNodeRef].state = "playing"
    /\ \A id \in Playing :
         sources[id].live =>
           (detail.isSpeaking /\ detail.sourceNodeRef = id)

\* ------------------------------------------------------------------------
\* AI requests settle
\* ------------------------------------------------------------------------

ActivateCleansCaches ==
  worker.step = "activated" =>
    /\ DOMAIN caches = {CACHE_NAME(worker.version)}
    /\ worker.precached =>
         Assets(worker.version) \subseteq caches[CACHE_NAME(worker.version)]

\* The worker of v3 found its own cache, the cache of v1 and a cache of
\* another name, and has activated.
ActivateCleansCachesWitness ==
  /\ worker.step = "activated"
  /\ worker.version = "v3"
  /\ worker.precached
  /\ worker.found = {CACHE_NAME("v1"), CACHE_NAME("v3"), OtherCache}
  /\ fetches = {}
  /\ served = NoAnswer

\* C30: a fetch event whose request has a cached match is answered with the
\* cached response and starts no network request; one without a match is
\* answered with the network response; and a URL is added to the caches at
\* fetch time only into CACHE_NAME and only if it is a font, an image or an
\* external library.
CacheFirstSelectiveFill ==
  [][/\ \A url \in Urls :
          /\ FetchEvent(url) =>
               IF HasMatch(caches, url)
               THEN /\ served' = [url |-> url, from |-> "cache"]
                    /\ fetches' = fetches
               ELSE /\ Network(url) \in fetches'
                    /\ served' = served
          /\ NetworkResponds(url) =>
               served' = [url |-> url, from |-> "network"]
     /\ worker.step = "activated" =>
          /\ DOMAIN caches' = DOMAIN caches
          /\ \A n \in DOMAIN caches : \A url \in caches'[n] \ caches[n] :
               /\ n = CACHE_NAME(worker.version)
               /\ isFont(url) \/ isImage(url) \/ isExternalLib(url)]_vars

\* A photo was answered from the network, cached, and answered from the
\* cache the next time; a script was answered from the network and is in no
\* cache; an image whose URL has a query is being fetched.
CacheFirstSelectiveFillWitness ==
  /\ worker.step = "activated"
  /\ worker.version = "v3"
  /\ served = [url |-> PhotoUrl, from |-> "cache"]
  /\ PhotoUrl \in caches[CACHE_NAME("v3")]
  /\ ~HasMatch(caches, ScriptUrl)
  /\ fetches = {Network(ImageQueryUrl)}

============================================================================
